---- MODULE Spec2Model ----
(***************************************************************************)
(* smartwatchfiles: a generator document (prose blocks and directive       *)
(* blocks) is compiled into an output document by four systems run once    *)
(* per tick over an entity/component store: GeneratorParsingSystem         *)
(* (reconciler), LabelEmbeddingSystem, CommandSystem and RenderSystem.     *)
(* A file watcher thread pushes file_modified events on the event bus.     *)
(*                                                                         *)
(* Text is a sequence of tokens.  The tokens in Markers stand for the      *)
(* `:name:` label references of the source syntax; a line is a record of   *)
(* its leading character and the tokens after it.                          *)
(***************************************************************************)
EXTENDS Integers, Sequences, FiniteSets, TLC

VARIABLES
    store,               \* ComponentManager: component type -> (entity -> component)
    component_manager,   \* ComponentManager field by field (explored in SpecEcs)
    available_entities,  \* EntityManager.available_entities (FIFO queue of free ids)
    living_entity_count, \* EntityManager.living_entity_count
    events,              \* EventBus.events
    drained,             \* local `events` of get_events / GeneratorParsingSystem.update
    source,              \* content of the generator file on disk
    source_readable,     \* whether open() of the generator file succeeds
    llm_cache,           \* CommandSystem.llm_cache
    run_cache,           \* CommandSystem.run_cache
    last_call_time,      \* command_handlers.llm.last_call_time
    now,                 \* time.time()
    rendered_doc,        \* RenderSystem.rendered_doc (<<>> is None)
    generated_file,      \* content of the output file
    pc,                  \* position of the processing loop inside a tick
    todo,                \* entities the running loop of CommandSystem.update has not reached
    crashed,             \* exception that left ECSApp.run ("" while running)
    obs,                 \* history of what the run did (observations only)
    parsing              \* parse_lines on its own: its locals and the lines not yet read

vars == <<store, component_manager, available_entities, living_entity_count, events, drained, source,
          source_readable, llm_cache, run_cache, last_call_time, now, rendered_doc,
          generated_file, pc, todo, crashed, obs, parsing>>

----------------------------------------------------------------------------
(* Bounds of the model. *)

MaxPushes == 2      \* file_modified events pushed by the watcher thread
MaxTicks == 2       \* ticks of ECSApp.run that are explored
MaxClock == 2       \* clock steps the environment takes
MaxCalls == 4       \* calls of the entity and component managers on their own
MaxLines == 4       \* lines of a block handed to parse_lines on its own

(* Program constants. *)

MAX_ENTITIES == 1000
rate_limit_seconds == 10

----------------------------------------------------------------------------
(* Optional values: None is <<>>, a present value x is <<x>>. *)

None == <<>>
Some(x) == <<x>>
IsNone(o) == o = <<>>
The(o) == o[1]

EmptyFn == [x \in {} |-> x]

RECURSIVE SeqToSet(_)
SeqToSet(s) == IF s = <<>> THEN {} ELSE {Head(s)} \cup SeqToSet(Tail(s))

RECURSIVE Flatten(_)
Flatten(ss) == IF ss = <<>> THEN <<>> ELSE Head(ss) \o Flatten(Tail(ss))

(* All orders in which a set can be iterated (a Python set has no contractual
   iteration order; CPython orders small ints by hash slot, e.g. {3, 40} is
   iterated 40 first). *)
Orders(S) == {o \in [1..Cardinality(S) -> S] : \A i, j \in 1..Cardinality(S) : i # j => o[i] # o[j]}

RECURSIVE Ascending(_)
Ascending(S) == IF S = {} THEN <<>>
                ELSE LET m == CHOOSE x \in S : \A y \in S : x <= y
                     IN <<m>> \o Ascending(S \ {m})

----------------------------------------------------------------------------
(* Text and label references. *)

PlainMarkers == {":u:", ":a:", ":b:"}
DottedMarkers == {":a.b:"}
Markers == PlainMarkers \cup DottedMarkers

LabelOf(tok) == CASE tok = ":u:" -> "u"
                  [] tok = ":a:" -> "a"
                  [] tok = ":b:" -> "b"
                  [] tok = ":a.b:" -> "a.b"

(* re.findall(r':([\w.-]+):', text), the pattern of the label embedding system *)
FindEmbeddings(text) == SelectSeq(text, LAMBDA t : t \in Markers)

(* re.findall(r':([\w-]+):', text), the pattern of the command system *)
FindUnpopulated(text) == SelectSeq(text, LAMBDA t : t \in PlainMarkers)

(* re.sub(rf':{label}:', replacement, text) *)
RECURSIVE ReSub(_, _, _)
ReSub(label, replacement, text) ==
    IF text = <<>> THEN <<>>
    ELSE (IF Head(text) \in Markers /\ LabelOf(Head(text)) = label
             THEN replacement ELSE <<Head(text)>>)
         \o ReSub(label, replacement, Tail(text))

(* '\n'.join(lines) for a list of texts *)
RECURSIVE JoinLines(_)
JoinLines(ls) ==
    IF ls = <<>> THEN <<>>
    ELSE IF Len(ls) = 1 THEN ls[1]
    ELSE ls[1] \o <<"\n">> \o JoinLines(Tail(ls))

----------------------------------------------------------------------------
(* models/section.py: the block parser. *)

Ln(lead, body) == [lead |-> lead, body |-> body]

(* the characters of a stripped line, as tokens *)
LineTokens(line) == (IF line.lead = "" THEN <<>> ELSE <<line.lead>>) \o line.body

HasEq(line) == \E i \in 1..Len(line.body) : line.body[i] = "="

EqPos(line) == CHOOSE i \in 1..Len(LineTokens(line)) :
                  /\ LineTokens(line)[i] = "="
                  /\ \A j \in 1..(i - 1) : LineTokens(line)[j] # "="

(* key, value = stripped_line.split('=', 1) *)
SplitKey(line) == SubSeq(LineTokens(line), 1, EqPos(line) - 1)
SplitValue(line) == SubSeq(LineTokens(line), EqPos(line) + 1, Len(LineTokens(line)))

(* a repeated key replaces the values of its entry *)
overwrite_parameter(parameters, key, value) ==
    IF \E i \in 1..Len(parameters) : parameters[i].name = key
    THEN LET i == CHOOSE k \in 1..Len(parameters) : parameters[k].name = key
         IN [parameters EXCEPT ![i].values = <<value>>]
    ELSE Append(parameters, [name |-> key, values |-> <<value>>])

(* add_parameter: a repeated key appends to the entry of that key *)
add_parameter(parameters, key, value) ==
    IF \E i \in 1..Len(parameters) : parameters[i].name = key
    THEN LET i == CHOOSE k \in 1..Len(parameters) :
                     /\ parameters[k].name = key
                     /\ \A j \in 1..(k - 1) : parameters[j].name # key
         IN [parameters EXCEPT ![i].values = Append(@, value)]
    ELSE Append(parameters, [name |-> key, values |-> <<value>>])

ParseStart == [state |-> "start", opening_labels |-> <<>>, closing_labels |-> <<>>,
               section_type |-> "None", command |-> None, instruction |-> <<>>,
               parameters |-> <<>>, text_content |-> <<>>, error |-> FALSE]

handle_start_state(p, line) ==
    IF line.lead = "/"
    THEN [p EXCEPT !.opening_labels = Append(@, line.body)]
    ELSE IF line.lead = "?"
    THEN [p EXCEPT !.state = "command", !.section_type = "command",
                   !.command = Some(IF line.body = <<>> THEN "" ELSE Head(line.body)),
                   !.instruction = IF Len(line.body) > 1
                                      THEN Append(@, Tail(line.body)) ELSE @]
    ELSE [p EXCEPT !.state = "text", !.section_type = "text",
                   !.text_content = Append(@, LineTokens(line))]

handle_command_state(p, line) ==
    IF HasEq(line)
    THEN [p EXCEPT !.state = "parameters",
                   !.parameters = add_parameter(@, SplitKey(line), SplitValue(line))]
    ELSE [p EXCEPT !.instruction = Append(@, LineTokens(line))]

(* raises ValueError on a line that is neither a closing label nor key=value *)
handle_parameters_state(p, line) ==
    IF line.lead = "\\"
    THEN [p EXCEPT !.closing_labels = Append(@, line.body)]
    ELSE IF HasEq(line)
    THEN [p EXCEPT !.parameters = add_parameter(@, SplitKey(line), SplitValue(line))]
    ELSE [p EXCEPT !.error = TRUE]

(* a text state that still collects opening labels *)
text_collects_opening(p, line) ==
    IF line.lead = "/"
    THEN [p EXCEPT !.opening_labels = Append(@, line.body)]
    ELSE IF line.lead = "\\"
    THEN [p EXCEPT !.closing_labels = Append(@, line.body)]
    ELSE [p EXCEPT !.text_content = Append(@, LineTokens(line))]

handle_text_state(p, line) ==
    IF line.lead = "\\"
    THEN [p EXCEPT !.closing_labels = Append(@, line.body)]
    ELSE [p EXCEPT !.text_content = Append(@, LineTokens(line))]

(* the body of the loop of parse_lines: the handler of the current state *)
parse_line(p, line) ==
    CASE p.state = "start" -> handle_start_state(p, line)
      [] p.state = "command" -> handle_command_state(p, line)
      [] p.state = "parameters" -> handle_parameters_state(p, line)
      [] p.state = "text" -> handle_text_state(p, line)

RECURSIVE parse_lines(_, _)
parse_lines(p, lines) ==
    IF lines = <<>> \/ p.error THEN p
    ELSE parse_lines(parse_line(p, Head(lines)), Tail(lines))

(* parse_lines is not running *)
NotParsing == [p |-> ParseStart, lines |-> <<>>, seen |-> <<>>, returned |-> FALSE]

(* parse_section: the Section record of one block; error when parse_lines raised *)
parse_section(raw_text) ==
    LET p == parse_lines(ParseStart, raw_text)
    IN IF p.section_type = "text"
       THEN [raw_text |-> raw_text, opening_labels |-> p.opening_labels,
             closing_labels |-> p.closing_labels, section_type |-> p.section_type,
             command |-> None, instruction |-> None, parameters |-> <<>>,
             text_content |-> Some(JoinLines(p.text_content)), error |-> p.error]
       ELSE [raw_text |-> raw_text, opening_labels |-> p.opening_labels,
             closing_labels |-> p.closing_labels, section_type |-> p.section_type,
             command |-> p.command,
             instruction |-> IF p.instruction = <<>> THEN None
                             ELSE Some(JoinLines(p.instruction)),
             parameters |-> p.parameters, text_content |-> None, error |-> p.error]

----------------------------------------------------------------------------
(* ecs/utils/generator_parser.py and the head of handle_file_modified_v2:
   a document is the sequence of its lines. *)

BlankLine == Ln("", <<>>)

(* [line for line in content if not line.strip().startswith('#')] *)
StripComments(content) == SelectSeq(content, LAMBDA l : l.lead # "#")

RECURSIVE SplitAcc(_, _, _)
SplitAcc(lines, cur, acc) ==
    IF lines = <<>> THEN (IF cur = <<>> THEN acc ELSE Append(acc, cur))
    ELSE IF Head(lines) = BlankLine
    THEN SplitAcc(Tail(lines), <<>>, IF cur = <<>> THEN acc ELSE Append(acc, cur))
    ELSE SplitAcc(Tail(lines), Append(cur, Head(lines)), acc)

(* re.split(r'\n\s*\n', content.strip()): an empty content is one empty section *)
split_into_sections(content) ==
    LET s == SplitAcc(content, <<>>, <<>>)
    IN IF s = <<>> THEN << <<BlankLine>> >> ELSE s

IsConfigSection(raw_text) == raw_text[1].lead = "!"

RECURSIVE ConfigOfLines(_, _)
ConfigOfLines(lines, config_map) ==
    IF lines = <<>> THEN config_map
    ELSE LET l == Head(lines)
             body == Ln("", l.body)
         IN ConfigOfLines(Tail(lines),
                IF l.lead = "!" /\ HasEq(body)
                THEN [k \in DOMAIN config_map \cup {SplitKey(body)} |->
                         IF k = SplitKey(body) THEN SplitValue(body) ELSE config_map[k]]
                ELSE config_map)

(* parse_config_sections: a later value of a key overwrites an earlier one *)
parse_config_sections(config_sections) == ConfigOfLines(Flatten(config_sections), EmptyFn)

----------------------------------------------------------------------------
(* ecs/managers: the component store and the entity pool. *)

ComponentTypes == {"RawText", "Index", "SectionType", "TextContent", "Command",
                   "Instruction", "Parameters", "OpeningLabel", "ClosingLabel",
                   "RenderedText", "LinkedLabels", "MarkedForDeletion", "Config"}

EmptyStore == [t \in ComponentTypes |-> EmptyFn]

has_component(st, entity, t) == entity \in DOMAIN st[t]

(* ComponentArray.add_component asserts that the entity has no such component *)
add_component(st, entity, t, component) == [st EXCEPT ![t] = (entity :> component) @@ @]

get_entities_with_component(st, t) == DOMAIN st[t]

remove_all_components(st, entity) ==
    [t \in ComponentTypes |-> [e \in DOMAIN st[t] \ {entity} |-> st[t][e]]]

valid_entities(st) == UNION {DOMAIN st[t] : t \in ComponentTypes}

(* The queue holds the ids fresh..MAX_ENTITIES-1 in ascending order, followed
   by the ids put back by destroy_entity. *)
InitialQueue == [fresh |-> 0, recycled |-> <<>>]
(* a test that reports the queue empty while it holds its last id *)
QueueEmptyEarly(q) == q.fresh >= MAX_ENTITIES - 1 /\ q.recycled = <<>>
QueueEmpty(q) == q.fresh >= MAX_ENTITIES /\ q.recycled = <<>>
QueueGet(q) == IF q.fresh < MAX_ENTITIES THEN q.fresh ELSE Head(q.recycled)
QueueRest(q) == IF q.fresh < MAX_ENTITIES THEN [q EXCEPT !.fresh = @ + 1]
                ELSE [q EXCEPT !.recycled = Tail(@)]
QueuePut(q, entity) == [q EXCEPT !.recycled = Append(@, entity)]
QueueHolds(q, entity) ==
    (q.fresh <= entity /\ entity < MAX_ENTITIES) \/ entity \in SeqToSet(q.recycled)

(* ComponentArray and ComponentManager field by field.  An array holds the set
   of entities whose entity_to_component_mapping entry is True and the
   entries of component_storage that are not None.  A call returns ok (no
   assertion failed) and the new value. *)
NewComponentArray == [component_storage |-> EmptyFn, entity_to_component_mapping |-> {},
                      component_count |-> 0]

InitialComponentManager ==
    [component_arrays |-> [t \in ComponentTypes |-> NewComponentArray],
     entities_by_component_type |-> [t \in ComponentTypes |-> {}],
     valid_entities |-> {}]

(* an add_component without its second assertion *)
array_put_component(array, entity, component) ==
    [ok |-> entity < MAX_ENTITIES,
     array |-> [array EXCEPT
                   !.component_storage = (entity :> component) @@ @,
                   !.entity_to_component_mapping = @ \cup {entity},
                   !.component_count = @ + 1]]

(* ComponentArray.add_component *)
array_add_component(array, entity, component) ==
    IF ~(entity < MAX_ENTITIES) \/ entity \in array.entity_to_component_mapping
    THEN [ok |-> FALSE, array |-> array]
    ELSE [ok |-> TRUE,
          array |-> [array EXCEPT
                        !.component_storage = (entity :> component) @@ @,
                        !.entity_to_component_mapping = @ \cup {entity},
                        !.component_count = @ + 1]]

(* ComponentArray.remove_component *)
array_remove_component(array, entity) ==
    IF ~(entity < MAX_ENTITIES) \/ entity \notin array.entity_to_component_mapping
    THEN [ok |-> FALSE, array |-> array]
    ELSE [ok |-> TRUE,
          array |-> [array EXCEPT
                        !.entity_to_component_mapping = @ \ {entity},
                        !.component_storage = [e \in DOMAIN @ \ {entity} |-> @[e]],
                        !.component_count = @ - 1]]

(* ComponentArray.remove_component_if_exists *)
remove_component_if_exists(array, entity) ==
    IF entity < MAX_ENTITIES /\ entity \in array.entity_to_component_mapping
    THEN array_remove_component(array, entity).array
    ELSE array

(* ComponentManager.has_component *)
manager_has_component(cm, entity, component_type) ==
    entity \in cm.component_arrays[component_type].entity_to_component_mapping

(* ComponentManager.add_component; component_type is type(component) *)
manager_add_component(cm, entity, component_type, component) ==
    LET r == array_add_component(cm.component_arrays[component_type], entity, component)
    IN IF ~r.ok THEN [ok |-> FALSE, cm |-> cm]
       ELSE [ok |-> TRUE,
             cm |-> [cm EXCEPT !.component_arrays[component_type] = r.array,
                               !.entities_by_component_type[component_type] = @ \cup {entity},
                               !.valid_entities = @ \cup {entity}]]

(* a remove_component that leaves entities_by_component_type as it is *)
manager_remove_from_array(cm, entity, component_type) ==
    LET r == array_remove_component(cm.component_arrays[component_type], entity)
    IN [ok |-> r.ok, cm |-> [cm EXCEPT !.component_arrays[component_type] = r.array]]

(* ComponentManager.remove_component *)
manager_remove_component(cm, entity, component_type) ==
    LET r == array_remove_component(cm.component_arrays[component_type], entity)
        cm1 == [cm EXCEPT !.component_arrays[component_type] = r.array,
                          !.entities_by_component_type[component_type] = @ \ {entity}]
    IN IF ~r.ok THEN [ok |-> FALSE, cm |-> cm]
       ELSE [ok |-> TRUE,
             cm |-> IF \A t \in ComponentTypes : ~manager_has_component(cm1, entity, t)
                    THEN [cm1 EXCEPT !.valid_entities = @ \ {entity}]
                    ELSE cm1]

(* a remove_all_components that clears the arrays only *)
manager_clear_arrays(cm, entity) ==
    [cm EXCEPT !.component_arrays =
        [t \in ComponentTypes |-> remove_component_if_exists(@[t], entity)]]

(* ComponentManager.remove_all_components *)
manager_remove_all_components(cm, entity) ==
    [cm EXCEPT !.component_arrays =
                   [t \in ComponentTypes |-> remove_component_if_exists(@[t], entity)],
               !.entities_by_component_type = [t \in ComponentTypes |-> @[t] \ {entity}],
               !.valid_entities = @ \ {entity}]

(* ComponentManager.is_valid_entity *)
is_valid_entity(cm, entity) == entity \in cm.valid_entities

(* ComponentManager.get_entities_with_component *)
manager_get_entities_with_component(cm, component_type) ==
    cm.entities_by_component_type[component_type]

RECURSIVE intersection_update(_, _, _)
intersection_update(cm, result, component_types) ==
    IF component_types = <<>> THEN result
    ELSE intersection_update(cm, result \cap cm.entities_by_component_type[Head(component_types)],
                             Tail(component_types))

(* ComponentManager.get_entities_with_components, given the types as a list *)
get_entities_with_components(cm, component_types) ==
    IF component_types = <<>> THEN {}
    ELSE intersection_update(cm, cm.entities_by_component_type[Head(component_types)],
                             Tail(component_types))

(* the store the other specifications work on, read off the manager *)
ViewOf(cm) ==
    [t \in ComponentTypes |->
        [e \in cm.component_arrays[t].entity_to_component_mapping |->
            cm.component_arrays[t].component_storage[e]]]

(* A world is the part of the state the reconciler and the renderer work on:
   [store, available_entities, living_entity_count, exc]; exc names the
   exception that was raised ("" when none). *)
World(st, q, n) == [store |-> st, available_entities |-> q, living_entity_count |-> n,
                    exc |-> ""]

Raise(w, exception) == IF w.exc = "" THEN [w EXCEPT !.exc = exception] ELSE w

(* EntityManager.create_entity, followed by the add_component calls of `comps` *)
create_entity_with(w, comps) ==
    IF QueueEmpty(w.available_entities) THEN Raise(w, "AssertionError")
    ELSE LET entity == QueueGet(w.available_entities)
         IN [w EXCEPT !.available_entities = QueueRest(@),
                      !.living_entity_count = @ + 1,
                      !.store = [t \in ComponentTypes |->
                                    IF t \in DOMAIN comps
                                    THEN (entity :> comps[t]) @@ @[t] ELSE @[t]]]

(* a destroy that puts the id back but keeps the count *)
destroy_uncounted(w, entity) ==
    [w EXCEPT !.store = remove_all_components(@, entity),
              !.available_entities = QueuePut(@, entity)]

destroy_entity(w, entity) ==
    [w EXCEPT !.store = remove_all_components(@, entity),
              !.available_entities = QueuePut(@, entity),
              !.living_entity_count = @ - 1]

----------------------------------------------------------------------------
(* ecs/systems/generator_parsing_system.py: the reconciler. *)

(* a sequence back to front *)
Reverse(evs) == [i \in 1..Len(evs) |-> evs[Len(evs) + 1 - i]]

(* a map whose lists hold the entities last visited first *)
known_sections_reversed(st, order) ==
    [raw \in {st["RawText"][e].raw_string : e \in DOMAIN st["RawText"]} |->
        Reverse(SelectSeq(order, LAMBDA e : st["RawText"][e].raw_string = raw))]

(* construct_sections_map: raw text -> the entities carrying it, in the order
   in which the set of RawText entities is iterated *)
known_sections_map(st, order) ==
    [raw \in {st["RawText"][e].raw_string : e \in DOMAIN st["RawText"]} |->
        SelectSeq(order, LAMBDA e : st["RawText"][e].raw_string = raw)]

(* construct_sections_map also clears the dirty flag of every entity it visits *)
clear_dirty(st) ==
    [st EXCEPT !["RawText"] = [e \in DOMAIN @ |-> [@[e] EXCEPT !.dirty = FALSE]]]

(* dirty_component.mark_raw_text_as_dirty *)
mark_raw_text_as_dirty(st, entity) == [st EXCEPT !["RawText"][entity].dirty = TRUE]

(* the components process_sections attaches to a new entity *)
new_entity_components(section, index, version_hash) ==
    LET always == [t \in {"RawText", "Index", "SectionType"} |->
                      CASE t = "RawText" -> [index |-> index, raw_string |-> section.raw_text,
                                             version_hash |-> version_hash, dirty |-> FALSE]
                        [] t = "Index" -> index
                        [] t = "SectionType" -> section.section_type]
        text == IF IsNone(section.text_content) THEN EmptyFn
                ELSE "TextContent" :> The(section.text_content)
        cmd == IF IsNone(section.command) THEN EmptyFn
               ELSE "Command" :> [command |-> The(section.command),
                                  parameters |-> section.parameters]
        ins == IF IsNone(section.instruction) THEN EmptyFn
               ELSE "Instruction" :> [instruction |-> The(section.instruction),
                                      render_instruction |-> The(section.instruction)]
        opn == IF Len(section.opening_labels) > 0
               THEN "OpeningLabel" :> SeqToSet(section.opening_labels) ELSE EmptyFn
        cls == IF Len(section.closing_labels) > 0
               THEN "ClosingLabel" :> SeqToSet(section.closing_labels) ELSE EmptyFn
    IN always @@ text @@ cmd @@ ins @@ opn @@ cls

(* the else branch of process_sections: the first entity of the list claims the
   block; its index and dirty flag change when the position differs *)
claim_entity(st, entity, index) ==
    IF st["Index"][entity] # index
    THEN mark_raw_text_as_dirty([st EXCEPT !["Index"][entity] = index], entity)
    ELSE st

RECURSIVE process_sections(_, _, _, _, _)
process_sections(w, known, sections_data, index, version_hash) ==
    IF sections_data = <<>> \/ w.exc # "" THEN [w |-> w, known |-> known]
    ELSE LET section == Head(sections_data)
         IN IF section.raw_text \notin DOMAIN known
            THEN process_sections(
                     create_entity_with(w, new_entity_components(section, index, version_hash)),
                     known, Tail(sections_data), index + 1, version_hash)
            ELSE LET entity == Head(known[section.raw_text])
                     rest == Tail(known[section.raw_text])
                     known2 == IF rest = <<>>
                               THEN [r \in DOMAIN known \ {section.raw_text} |-> known[r]]
                               ELSE [known EXCEPT ![section.raw_text] = rest]
                 IN process_sections(
                        [w EXCEPT !.store = claim_entity(@, entity, index)],
                        known2, Tail(sections_data), index + 1, version_hash)

(* mark_remaining_sections_for_deletion: an entity that is already marked gets a
   logged warning, every other remaining entity a MarkedForDeletionComponent *)
mark_remaining_sections_for_deletion(st, known) ==
    LET remaining == UNION {SeqToSet(known[r]) : r \in DOMAIN known}
    IN [st EXCEPT !["MarkedForDeletion"] =
           [e \in DOMAIN @ \cup remaining |-> TRUE]]

(* a pass that creates a config entity whether or not there is one *)
new_config_entity(w, config_map) == create_entity_with(w, "Config" :> config_map)

handle_config_entities(w, config_map) ==
    IF get_entities_with_component(w.store, "Config") = {}
    THEN create_entity_with(w, "Config" :> config_map)
    ELSE LET config_entity == CHOOSE e \in DOMAIN w.store["Config"] : TRUE
             old == w.store["Config"][config_entity]
         IN [w EXCEPT !.store["Config"][config_entity] =
                [k \in DOMAIN old \cup DOMAIN config_map |->
                    IF k \in DOMAIN config_map THEN config_map[k] ELSE old[k]]]

(* the sections a readable file is split into *)
SectionsOf(content) == split_into_sections(StripComments(content))
NonConfigSections(content) == SelectSeq(SectionsOf(content), LAMBDA r : ~IsConfigSection(r))
ConfigSections(content) == SelectSeq(SectionsOf(content), LAMBDA r : IsConfigSection(r))

ParseAll(raws) == [i \in 1..Len(raws) |-> parse_section(raws[i])]

(* handle_file_modified_v2 on a world: the file is read, the config entity is
   merged, the sections are parsed (ValueError leaves the pass here), then the
   entities are matched in the iteration order `order` of the RawText set *)
handle_file_modified_v2(w, readable, content, order) ==
    IF ~readable THEN Raise(w, "OSError")
    ELSE LET w1 == handle_config_entities(w, parse_config_sections(ConfigSections(content)))
             sections_data == ParseAll(NonConfigSections(content))
         IN IF w1.exc # "" THEN w1
            ELSE IF \E i \in 1..Len(sections_data) : sections_data[i].error
            THEN Raise(w1, "ValueError")
            ELSE LET known == known_sections_map(w1.store, order)
                     r == process_sections([w1 EXCEPT !.store = clear_dirty(@)], known,
                                           sections_data, 0, content)
                 IN IF r.w.exc # "" THEN r.w
                    ELSE [r.w EXCEPT !.store = mark_remaining_sections_for_deletion(@, r.known)]

(* the entities mark_remaining_sections_for_deletion visits in the pass that
   handle_file_modified_v2 makes on `w` (none when the pass is left early) *)
remaining_entities(w, readable, content, order) ==
    LET w1 == handle_config_entities(w, parse_config_sections(ConfigSections(content)))
        sections_data == ParseAll(NonConfigSections(content))
        r == process_sections([w1 EXCEPT !.store = clear_dirty(@)],
                              known_sections_map(w1.store, order), sections_data, 0, content)
    IN IF ~readable \/ w1.exc # "" \/ (\E i \in 1..Len(sections_data) : sections_data[i].error)
          \/ r.w.exc # ""
       THEN {}
       ELSE UNION {SeqToSet(r.known[raw]) : raw \in DOMAIN r.known}

----------------------------------------------------------------------------
(* ecs/components and ecs/systems/label_embedding_system.py: the label
   resolver.  `order` is the order in which the entity sets are iterated. *)

Iterate(S, order) == SelectSeq(order, LAMBDA e : e \in S)

set_rendered_text_component(st, entity, rendered_text) ==
    [st EXCEPT !["RenderedText"] = (entity :> rendered_text) @@ @]

set_instruction(st, entity, instruction) ==
    [st EXCEPT !["Instruction"][entity].render_instruction = instruction]

(* a lookup that finds an empty value for every label *)
always_blank(st, label, order) == Some(<<>>)

(* the value published for `label`: the first entity in iteration order whose
   opening labels hold it supplies its rendered text, else its text content,
   else None; None too when no entity declares the label *)
get_replacement_text_by_label(st, label, order) ==
    LET declaring == SelectSeq(Iterate(DOMAIN st["OpeningLabel"], order),
                               LAMBDA e : <<label>> \in st["OpeningLabel"][e])
    IN IF declaring = <<>> THEN None
       ELSE LET entity == Head(declaring)
            IN IF has_component(st, entity, "RenderedText")
               THEN Some(st["RenderedText"][entity])
               ELSE IF has_component(st, entity, "TextContent")
               THEN Some(st["TextContent"][entity])
               ELSE None

add_linked_label(st, entity, label, replacement_text) ==
    [st EXCEPT !["LinkedLabels"] =
        (entity :> ((label :> replacement_text) @@
                    (IF entity \in DOMAIN @ THEN @[entity] ELSE EmptyFn))) @@ @]

(* a comparison that finds no linked label changed *)
never_changed(st, entity, order) == FALSE

embeddings_have_changed(st, entity, order) ==
    /\ has_component(st, entity, "LinkedLabels")
    /\ \E l \in DOMAIN st["LinkedLabels"][entity] :
          get_replacement_text_by_label(st, l, order) # Some(st["LinkedLabels"][entity][l])

reset_text_if_embeddings_changed(st, entity, order) ==
    IF embeddings_have_changed(st, entity, order) THEN st["TextContent"][entity]
    ELSE IF has_component(st, entity, "RenderedText") THEN st["RenderedText"][entity]
    ELSE st["TextContent"][entity]

RECURSIVE process_labels(_, _, _, _, _, _)
process_labels(st, entity, base_text, labels, order, target) ==
    IF labels = <<>> THEN st
    ELSE LET label == LabelOf(Head(labels))
             replacement == get_replacement_text_by_label(st, label, order)
             text == IF IsNone(replacement) THEN base_text
                     ELSE ReSub(label, The(replacement), base_text)
             st1 == IF IsNone(replacement) THEN st
                    ELSE add_linked_label(st, entity, label, The(replacement))
             st2 == IF target = "text" THEN set_rendered_text_component(st1, entity, text)
                    ELSE set_instruction(st1, entity, text)
         IN process_labels(st2, entity, text, Tail(labels), order, target)

process_labels_in_text(st, entity, base_text, order) ==
    process_labels(st, entity, base_text, FindEmbeddings(base_text), order, "text")

process_labels_in_instruction(st, entity, base_text, order) ==
    process_labels(st, entity, base_text, FindEmbeddings(base_text), order, "instruction")

(* one parameter value: a label is substituted only when its value is truthy *)
RECURSIVE embed_parameter_value(_, _, _, _, _)
embed_parameter_value(st, entity, parameter_val, labels, order) ==
    IF labels = <<>> THEN [st |-> st, val |-> parameter_val]
    ELSE LET label == LabelOf(Head(labels))
             replacement == get_replacement_text_by_label(st, label, order)
             truthy == ~IsNone(replacement) /\ The(replacement) # <<>>
         IN embed_parameter_value(
                IF truthy THEN add_linked_label(st, entity, label, The(replacement)) ELSE st,
                entity,
                IF truthy THEN ReSub(label, The(replacement), parameter_val) ELSE parameter_val,
                Tail(labels), order)

RECURSIVE embed_parameter_values(_, _, _, _, _)
embed_parameter_values(st, entity, values, done, order) ==
    IF values = <<>> THEN [st |-> st, vals |-> done]
    ELSE LET r == embed_parameter_value(st, entity, Head(values),
                                        FindEmbeddings(Head(values)), order)
         IN embed_parameter_values(r.st, entity, Tail(values), Append(done, r.val), order)

RECURSIVE embed_parameters(_, _, _, _, _)
embed_parameters(st, entity, parameters, done, order) ==
    IF parameters = <<>> THEN [st |-> st, params |-> done]
    ELSE LET r == embed_parameter_values(st, entity, Head(parameters).values, <<>>, order)
         IN embed_parameters(r.st, entity, Tail(parameters),
                Append(done, [name |-> Head(parameters).name, values |-> r.vals]), order)

process_labels_in_parameters(st, entity, parameters, order) ==
    LET r == embed_parameters(st, entity, parameters, <<>>, order)
    IN [r.st EXCEPT !["Parameters"][entity].render_parameters = r.params]

RECURSIVE embed_texts(_, _, _)
embed_texts(st, entities, order) ==
    IF entities = <<>> THEN st
    ELSE embed_texts(
             process_labels_in_text(st, Head(entities),
                 reset_text_if_embeddings_changed(st, Head(entities), order), order),
             Tail(entities), order)

RECURSIVE embed_instructions(_, _, _)
embed_instructions(st, entities, order) ==
    IF entities = <<>> THEN st
    ELSE LET e == Head(entities)
             base_text == IF embeddings_have_changed(st, e, order)
                          THEN st["Instruction"][e].instruction
                          ELSE st["Instruction"][e].render_instruction
         IN embed_instructions(process_labels_in_instruction(st, e, base_text, order),
                               Tail(entities), order)

RECURSIVE embed_all_parameters(_, _, _)
embed_all_parameters(st, entities, order) ==
    IF entities = <<>> THEN st
    ELSE LET e == Head(entities)
             base_parameters == IF embeddings_have_changed(st, e, order)
                                THEN st["Parameters"][e].parameters
                                ELSE st["Parameters"][e].render_parameters
         IN embed_all_parameters(process_labels_in_parameters(st, e, base_parameters, order),
                                 Tail(entities), order)

(* LabelEmbeddingSystem.update: the three loops, in this order *)
label_embedding_update(st, order) ==
    LET st1 == embed_texts(st, Iterate(DOMAIN st["TextContent"], order), order)
        st2 == embed_instructions(st1, Iterate(DOMAIN st1["Instruction"], order), order)
    IN embed_all_parameters(st2, Iterate(DOMAIN st2["Parameters"], order), order)

----------------------------------------------------------------------------
(* ecs/systems/command_system.py and command_handlers/llm.py: the directive
   executor.  A handler works on the record
   [store, llm_cache, run_cache, last_call_time, exc, obs]. *)

RENDER_TEXT_RATE_LIMITED == <<"<LLM RATE LIMIT>">>

QuestionMark(command) == <<"?", command>>

HasParam(parameters, key) == \E i \in 1..Len(parameters) : parameters[i].name = <<key>>

FirstParam(parameters, key) ==
    parameters[CHOOSE i \in 1..Len(parameters) :
                  /\ parameters[i].name = <<key>>
                  /\ \A j \in 1..(i - 1) : parameters[j].name # <<key>>]

(* get_latest_parameter: the last value of the first entry of that key *)
get_latest_parameter(parameters, key) ==
    IF HasParam(parameters, key)
    THEN Some(FirstParam(parameters, key).values[Len(FirstParam(parameters, key).values)])
    ELSE None

get_config(st, config_key) ==
    IF DOMAIN st["Config"] = {} THEN None
    ELSE LET config_map == st["Config"][CHOOSE e \in DOMAIN st["Config"] : TRUE]
         IN IF <<config_key>> \in DOMAIN config_map THEN Some(config_map[<<config_key>>])
            ELSE None

Truthy(o) == ~IsNone(o) /\ The(o) # <<>>

get_latest_or_config(st, parameters, key) ==
    IF Truthy(get_latest_parameter(parameters, key))
    THEN get_latest_parameter(parameters, key)
    ELSE get_config(st, key)

(* get_model: None unless both the model name and the api key are set *)
get_model(st, parameters) ==
    IF Truthy(get_latest_or_config(st, parameters, "llm"))
       /\ Truthy(get_latest_or_config(st, parameters, "llm-api-key"))
    THEN Some([name |-> The(get_latest_or_config(st, parameters, "llm")),
               api_key |-> The(get_latest_or_config(st, parameters, "llm-api-key"))])
    ELSE None

(* the key of build_query: md5 of instruction + model + str(parameters) *)
build_query_key(instruction, parameters, model_name) ==
    [text |-> instruction \o model_name, parameters |-> parameters]

(* generate_run_key: md5 of the json of instruction, parameters and entity *)
generate_run_key(instruction, parameters, entity) ==
    [instruction |-> instruction, parameters |-> parameters, entity |-> entity]

run_continuously(parameters) ==
    /\ HasParam(parameters, "run_continuous")
    /\ FirstParam(parameters, "run_continuous").values[1] = <<"true">>

(* a limiter that lets a call through when exactly rate_limit_seconds have passed *)
limited_before(current_time, last) == current_time - last < rate_limit_seconds

is_rate_limited(current_time, last) == current_time - last <= rate_limit_seconds

(* call_llm at time current_time; api is what the query API does when it is
   called: "ok" (a response) or "error" (it raises).  Returns the pair and the
   new last_call_time. *)
call_llm(model, current_time, last, api) ==
    IF is_rate_limited(current_time, last)
    THEN [rate_limited |-> TRUE, text |-> RENDER_TEXT_RATE_LIMITED, last |-> last,
          api_called |-> FALSE]
    ELSE IF api = "ok" /\ Head(model.name) = "gpt"
    THEN [rate_limited |-> FALSE, text |-> <<"response">>, last |-> current_time,
          api_called |-> TRUE]
    ELSE [rate_limited |-> TRUE, text |-> <<"Error:">>, last |-> last,
          api_called |-> Head(model.name) = "gpt"]

(* a cache test that ignores the rate-limited flag *)
cache_hit_any(cache, query_key) == query_key \in DOMAIN cache

(* the cache test of handle_gen: an entry that is not flagged rate-limited *)
cache_hit(cache, query_key) ==
    /\ query_key \in DOMAIN cache
    /\ ~cache[query_key].rate_limited

Count(f, k) == IF k \in DOMAIN f THEN f[k] ELSE 0

(* handle_gen; get_component asserts that the component exists *)
handle_gen(c, entity, current_time, api) ==
    IF ~has_component(c.store, entity, "Instruction")
       \/ ~has_component(c.store, entity, "Parameters")
    THEN [c EXCEPT !.exc = "AssertionError"]
    ELSE LET instruction == c.store["Instruction"][entity].render_instruction
             parameters == c.store["Parameters"][entity].render_parameters
             model == get_model(c.store, parameters)
         IN IF FindUnpopulated(instruction) # <<>> THEN c
            ELSE IF IsNone(model) THEN [c EXCEPT !.exc = "AttributeError"]
            ELSE LET query_key == build_query_key(instruction, parameters, The(model).name)
                     hit == cache_hit(c.llm_cache, query_key)
                     r == call_llm(The(model), current_time, c.last_call_time, api)
                 IN IF hit
                    THEN [c EXCEPT !.store = set_rendered_text_component(
                                       @, entity, c.llm_cache[query_key].response),
                                   !.obs.served = @ \cup {entity},
                                   !.obs.handlings = (query_key :> Count(@, query_key) + 1) @@ @]
                    ELSE [c EXCEPT !.llm_cache = (query_key :>
                                       [response |-> r.text, rate_limited |-> r.rate_limited])
                                       @@ @,
                                   !.last_call_time = r.last,
                                   !.store = set_rendered_text_component(@, entity, r.text),
                                   !.obs.llm_calls = (query_key :> Count(@, query_key) + 1) @@ @,
                                   !.obs.handlings = (query_key :> Count(@, query_key) + 1) @@ @,
                                   !.obs.last_call = Some([key |-> query_key,
                                       rate_limited |-> r.rate_limited, text |-> r.text]),
                                   !.obs.api_calls = @ + (IF r.api_called THEN 1 ELSE 0),
                                   !.obs.rate_limited = @ \/ r.rate_limited,
                                   !.obs.served = @ \ {entity}]

(* what a child process started with shlex.split(instruction) writes to its
   stdout when it exits with code 0: echo writes its arguments and a newline *)
ChildStdout(instruction) ==
    IF instruction # <<>> /\ Head(instruction) = "echo"
    THEN SelectSeq(Tail(instruction), LAMBDA t : t # "\n") \o <<"\n">>
    ELSE <<"stdout">>

(* handle_run; proc is what starting the child process does: "ok" (exit code
   0 with stdout), "empty" (exit code 0, empty stdout), "fail" (another exit
   code) or "raise" (shlex or Popen raises) *)
handle_run(c, entity, proc) ==
    IF ~has_component(c.store, entity, "Instruction")
       \/ ~has_component(c.store, entity, "Parameters")
    THEN [c EXCEPT !.exc = "AssertionError"]
    ELSE LET instruction == c.store["Instruction"][entity].render_instruction
             parameters == c.store["Parameters"][entity].parameters
             query_key == generate_run_key(instruction, parameters, entity)
             hit == /\ query_key \in DOMAIN c.run_cache
                    /\ c.run_cache[query_key] # <<>>
                    /\ ~run_continuously(parameters)
             stdout == IF proc = "ok" THEN ChildStdout(instruction) ELSE <<>>
         IN IF hit
            THEN [c EXCEPT !.store = set_rendered_text_component(
                               @, entity, c.run_cache[query_key])]
            ELSE IF proc \in {"ok", "empty"}
            THEN [c EXCEPT !.run_cache = (query_key :> stdout) @@ @,
                           !.store = set_rendered_text_component(@, entity, stdout),
                           !.obs.started = @ + 1]
            ELSE IF proc = "fail"
            THEN [c EXCEPT !.store = set_rendered_text_component(
                               @, entity, <<"Command failed with return code">>),
                           !.obs.started = @ + 1]
            ELSE [c EXCEPT !.store = set_rendered_text_component(
                               @, entity, <<"An error occurred while executing the command:">>)]

(* command_handlers/insert.py; found is whether the named file or directory
   exists; a directory that exists holds one file *)
DELIMITER == <<"----------">>

read_file_content(file_path, found) ==
    IF found THEN <<"content">>
    ELSE <<"ERROR! The file '">> \o file_path \o <<"' does not exist.">>

(* the relative path, then the absolute path: a file is found by both or none *)
insert_from_file(filename, found) == read_file_content(filename, found)

process_file(file_path, found) ==
    <<"[">> \o file_path \o <<"]", "\n">> \o insert_from_file(file_path, found)
        \o <<"\n">> \o DELIMITER

(* param_dict: the first value of each parameter *)
ParamDict(parameters, key) == FirstParam(parameters, key).values[1]

handle_insert_command(parameters, found) ==
    IF HasParam(parameters, "directory")
    THEN IF found
         THEN process_file(ParamDict(parameters, "directory") \o <<"/", "f">>, TRUE)
         ELSE <<"ERROR! The directory '">> \o ParamDict(parameters, "directory")
                  \o <<"' does not exist.">>
    ELSE IF HasParam(parameters, "filename")
    THEN process_file(ParamDict(parameters, "filename"), found)
    ELSE IF HasParam(parameters, "file")
    THEN process_file(ParamDict(parameters, "file"), found)
    ELSE <<>>

(* the insert branch of CommandSystem.update and handle_insert; get_component
   asserts that the ParametersComponent exists *)
handle_insert(c, entity, found) ==
    IF ~has_component(c.store, entity, "Parameters")
    THEN [c EXCEPT !.exc = "AssertionError"]
    ELSE LET parameters == c.store["Parameters"][entity].render_parameters
         IN [c EXCEPT !.store = set_rendered_text_component(
                            @, entity, handle_insert_command(parameters, found))]

UnpopulatedInParameters(parameters) ==
    \E i \in 1..Len(parameters) : \E j \in 1..Len(parameters[i].values) :
        FindUnpopulated(parameters[i].values[j]) # <<>>

(* a loop body that takes the directive out of the set it iterates over *)
command_consumed(c, entity, current_time, api, proc, found) ==
    [c EXCEPT !.store["Command"] =
        [e \in DOMAIN c.store["Command"] \ {entity} |-> c.store["Command"][e]]]

(* the body of the loop of CommandSystem.update for one entity *)
command_update_entity(c, entity, current_time, api, proc, found) ==
    LET command == c.store["Command"][entity].command
        has_instruction == has_component(c.store, entity, "Instruction")
    IN IF ~has_instruction /\ command = "gen"
       THEN [c EXCEPT !.store = set_rendered_text_component(@, entity, QuestionMark(command))]
       ELSE IF has_instruction
               /\ FindUnpopulated(c.store["Instruction"][entity].render_instruction) # <<>>
       THEN [c EXCEPT !.store = set_rendered_text_component(
                          @, entity, c.store["Instruction"][entity].render_instruction)]
       ELSE IF has_component(c.store, entity, "Parameters")
               /\ UnpopulatedInParameters(c.store["Parameters"][entity].render_parameters)
       THEN [c EXCEPT !.store = set_rendered_text_component(@, entity, QuestionMark(command))]
       ELSE LET d == [c EXCEPT !.obs.dispatched =
                         IF command \in {"insert", "gen", "run"} THEN @ \cup {entity} ELSE @]
            IN CASE command = "insert" -> handle_insert(d, entity, found)
                 [] command = "gen" -> handle_gen(d, entity, current_time, api)
                 [] command = "run" -> handle_run(d, entity, proc)
                 [] OTHER -> d

----------------------------------------------------------------------------
(* ecs/systems/render_system.py: the renderer. *)

RECURSIVE destroy_in_order(_, _)
destroy_in_order(w, entities) ==
    IF entities = <<>> THEN w
    ELSE destroy_in_order(destroy_entity(w, Head(entities)), Tail(entities))

(* a renderer that destroys nothing *)
keep_marked(w, order) == w

(* handle_marked_for_deletion_entities: the copied set is iterated in `order` *)
handle_marked_for_deletion_entities(w, order) ==
    destroy_in_order(w, Iterate(DOMAIN w.store["MarkedForDeletion"], order))

(* a renderer that knows no focus *)
no_focus(st) == {}

get_in_focus_entities(st) ==
    {e \in DOMAIN st["OpeningLabel"] : <<"focus">> \in st["OpeningLabel"][e]}

SectionText(st, entity) ==
    IF has_component(st, entity, "RenderedText") THEN st["RenderedText"][entity]
    ELSE IF has_component(st, entity, "TextContent") THEN st["TextContent"][entity]
    ELSE <<>>

(* construct_sections_map of the renderer: index -> text; of several entities
   with one index the last one iterated stays *)
render_sections_map(st, section_entities, order) ==
    LET it == Iterate(section_entities, order \o Ascending(section_entities \ SeqToSet(order)))
    IN [i \in {st["Index"][e] : e \in section_entities} |->
           SectionText(st, it[CHOOSE k \in 1..Len(it) :
                                 /\ st["Index"][it[k]] = i
                                 /\ \A j \in (k + 1)..Len(it) : st["Index"][it[j]] # i])]

Min(S) == CHOOSE x \in S : \A y \in S : x <= y

(* render_text: ascending index; the separator is added only when the text
   built so far is not empty *)
RECURSIVE render_text_from(_, _)
render_text_from(sections_map, complete_text) ==
    IF DOMAIN sections_map = {} THEN complete_text
    ELSE LET index == Min(DOMAIN sections_map)
         IN render_text_from(
                [i \in DOMAIN sections_map \ {index} |-> sections_map[i]],
                (IF complete_text # <<>> THEN complete_text \o <<"\n\n">> ELSE complete_text)
                    \o sections_map[index])

render_text(sections_map) == render_text_from(sections_map, <<>>)

(* the entities RenderSystem.update builds the sections map from *)
active_section_entities(st) ==
    IF Cardinality(get_in_focus_entities(st)) > 0 THEN get_in_focus_entities(st)
    ELSE get_entities_with_component(st, "RawText")

(* the document RenderSystem.update assembles from the store *)
assemble(st, order) ==
    render_text(render_sections_map(st, active_section_entities(st), order))

(* a condition under which every assembled document is written *)
always_write(last_doc, doc) == TRUE

(* self.rendered_doc is None or self.rendered_doc != rendered_doc *)
should_write(last_doc, doc) == IsNone(last_doc) \/ The(last_doc) # doc

----------------------------------------------------------------------------
(* The documents and directive blocks the model draws from. *)

TextA == <<Ln("", <<"A">>)>>
TextB == <<Ln("", <<"B">>)>>
RunUndefined == <<Ln("?", <<"run", "echo", ":u:">>)>>
RunDotted == <<Ln("?", <<"run", "echo", ":a.b:">>)>>
RunHi == <<Ln("?", <<"run", "echo", "hi">>)>>
RunBare == <<Ln("?", <<"run">>)>>
RunParamUndefined == <<Ln("?", <<"run", "echo", "hi">>), Ln("", <<"k", "=", ":u:">>)>>
GenHello == <<Ln("?", <<"gen", "hello">>)>>
GenOther == <<Ln("?", <<"gen", "bye">>)>>
GenBare == <<Ln("?", <<"gen">>)>>
InsertFile == <<Ln("?", <<"insert">>), Ln("", <<"file", "=", "x">>)>>
InsertDirectory == <<Ln("?", <<"insert">>), Ln("", <<"directory", "=", "d">>)>>
Unknown == <<Ln("?", <<"foo", "bar">>)>>
BadParameters == <<Ln("?", <<"run", "x">>), Ln("", <<"k", "=", "v">>), Ln("", <<"oops">>)>>
LlmConfig == <<Ln("!", <<"llm", "=", "gpt">>), Ln("!", <<"llm-api-key", "=", "k">>)>>
FocusA == <<Ln("/", <<"focus">>), Ln("", <<"A">>)>>
Greet == <<Ln("/", <<"greet">>), Ln("", <<"Hello">>), Ln("\\", <<"greet">>)>>
RunHiDot == <<Ln("?", <<"run", "echo", "hi">>), Ln("", <<".">>)>>

(* blocks joined by one blank line *)
RECURSIVE Doc(_)
Doc(blocks) == IF blocks = <<>> THEN <<>>
               ELSE IF Len(blocks) = 1 THEN blocks[1]
               ELSE blocks[1] \o <<BlankLine>> \o Doc(Tail(blocks))

Docs == {Doc(<<TextA, TextB>>), Doc(<<TextB, TextA>>), Doc(<<TextA, TextA>>),
         Doc(<<TextA, TextB, TextA>>), Doc(<<TextA, TextA, TextB>>),
         Doc(<<BadParameters, TextA>>), Doc(<<RunUndefined, TextA>>),
         Doc(<<LlmConfig, RunHi>>), Doc(<<LlmConfig, GenHello, GenHello>>)}

(* documents for the renderer and for the directive paths through a tick *)
RenderDocs == {Doc(<<TextA, TextB>>), Doc(<<FocusA, TextB>>), Doc(<<TextB, FocusA>>),
               Doc(<<Unknown, TextA>>), Doc(<<Greet, RunHiDot>>), Doc(<<InsertFile>>)}

LabelOnly == <<Ln("/", <<"a">>)>>
ConfigTwice == <<Ln("!", <<"llm", "=", "gpt">>), Ln("!", <<"llm", "=", "claude">>)>>
ConfigKey == <<Ln("!", <<"llm-api-key", "=", "k">>)>>

(* documents for the reconciler under a watcher whose events and whose reads
   of the file are separate in time *)
WatchDocs == {Doc(<<TextA, TextB>>), Doc(<<TextA>>), Doc(<<ConfigTwice, TextB, TextA>>),
              Doc(<<ConfigKey, LabelOnly, TextB>>)}

DeclX == <<Ln("/", <<"a">>), Ln("", <<"X">>)>>
DeclY == <<Ln("/", <<"a">>), Ln("", <<"Y">>)>>
UseA == <<Ln("", <<"see", ":a:", ":u:">>)>>

RunAlways == <<Ln("?", <<"run", "echo", "hi">>), Ln("", <<"run_continuous", "=", "true">>)>>
RunOnceYes == <<Ln("?", <<"run", "echo", "hi">>), Ln("", <<"run_continuous", "=", "yes">>)>>
RunMixed == <<Ln("?", <<"run", "echo", ":a:", ":u:">>), Ln("", <<"k", "=", ":a:", ":u:">>)>>

(* documents of a block that declares the label a and a block that refers to it *)
LabelDocs == {Doc(<<DeclX, UseA>>), Doc(<<DeclY, UseA>>), Doc(<<UseA, DeclX>>), Doc(<<UseA>>)}

DirectiveBlocks == {RunUndefined, RunDotted, RunHi, RunBare, RunParamUndefined,
                    GenHello, GenOther, GenBare, InsertFile, InsertDirectory, Unknown}

CommandDocs == {Doc(<<b>>) : b \in DirectiveBlocks}
               \cup {Doc(<<b1, b2>>) : b1 \in DirectiveBlocks, b2 \in {GenHello, RunHi}}
               \cup {Doc(<<LlmConfig, b>>) : b \in DirectiveBlocks}
               \cup {Doc(<<LlmConfig, b1, b2>>) : b1 \in DirectiveBlocks, b2 \in {GenHello, RunHi}}
               \cup {Doc(<<LlmConfig, GenOther, GenHello, GenHello>>)}
               \cup {Doc(<<DeclX, UseA, RunMixed>>)}
               \cup {Doc(<<RunAlways>>), Doc(<<RunOnceYes>>)}

StartTime == rate_limit_seconds * 10     \* time.time() when the loop starts, far from 0
ClockSteps == {0, rate_limit_seconds, rate_limit_seconds + 1}
ClockEnd == StartTime + MaxClock * (rate_limit_seconds + 1)

----------------------------------------------------------------------------
(* The state machine of main.py: the watcher thread and the processing loop. *)

(* The iteration orders an update is explored with.  Where the outcome cannot
   depend on the order (no two entities with one raw text; no label declared;
   no two entities with one index) the ascending order alone is taken. *)
ReconcilerOrders(st) ==
    IF \E e1, e2 \in DOMAIN st["RawText"] :
          e1 # e2 /\ st["RawText"][e1].raw_string = st["RawText"][e2].raw_string
    THEN Orders(DOMAIN st["RawText"])
    ELSE {Ascending(DOMAIN st["RawText"])}

EmbeddingOrders(st) ==
    IF DOMAIN st["OpeningLabel"] = {} THEN {Ascending(valid_entities(st))}
    ELSE Orders(valid_entities(st))

SharingIndex(st) ==
    {e1 \in DOMAIN st["RawText"] \ DOMAIN st["MarkedForDeletion"] :
        \E e2 \in DOMAIN st["RawText"] \ DOMAIN st["MarkedForDeletion"] :
            e1 # e2 /\ st["Index"][e1] = st["Index"][e2]}

Event(n) == [type |-> "file_modified", id |-> n]

Ids(evs) == [i \in 1..Len(evs) |-> evs[i].id]

InitObs == [pushed |-> 0,            \* events pushed by the watcher thread
            returned |-> <<>>,       \* ids of the events get_events returned, in order
            handled |-> <<>>,        \* ids of the events the reconciler handled, in order
            reconciled |-> None,     \* content of the last pass that ran to its end
            ticks |-> 0,             \* ticks completed
            served |-> {},           \* gen entities whose last handling was a cache hit
            handlings |-> EmptyFn,   \* query key -> handlings by handle_gen that reached the cache
            llm_calls |-> EmptyFn,   \* query key -> calls of call_llm
            last_call |-> None,      \* what the last call of call_llm returned
            raised_in |-> "",        \* the update an exception left
            api_calls |-> 0,         \* calls of the query API
            rate_limited |-> FALSE,  \* some call_llm returned the rate-limited flag
            started |-> 0,           \* child processes started
            dispatched |-> {},       \* entities handed to handle_insert/run/gen this tick
            reached |-> {},          \* entities CommandSystem.update reached this tick
            missing |-> {},          \* insert entities whose target did not exist when reached
            section_entities |-> {}, \* entities the last render built its sections map from
            sections_map |-> EmptyFn, \* the sections map the last render_text was given
            assembled |-> None,      \* the document the last RenderSystem.update assembled
            writes |-> 0,            \* number of writes of the output file
            last_write |-> None,     \* the document of the last write
            visited |-> EmptyFn,     \* raw text -> its entities as the last pass of the tick visited them
            remaining |-> {},        \* entities the last pass of the tick left unclaimed
            warned |-> {},           \* of these, the ones that were already marked
            written |-> 0,           \* writes of the watched file (SpecWatch)
            calls |-> 0,             \* calls of the managers (SpecEcs)
            call |-> None,           \* the last call of a manager and how it ended
            live |-> {},             \* ids create_entity returned and destroy_entity has not taken
            destroyed |-> {}]        \* ids destroy_entity has taken while they carried a component

Running == crashed = ""

InitCommon ==
    /\ component_manager = InitialComponentManager
    /\ drained = <<>>
    /\ source_readable = TRUE
    /\ llm_cache = EmptyFn
    /\ run_cache = EmptyFn
    /\ last_call_time = 0
    /\ now = StartTime
    /\ rendered_doc = None
    /\ generated_file = <<>>
    /\ todo = {}
    /\ crashed = ""

InitWith(docs) ==
    /\ InitCommon
    /\ parsing = NotParsing
    /\ obs = InitObs
    /\ events = <<Event(0)>>
    /\ source \in docs
    /\ store = EmptyStore
    /\ available_entities = InitialQueue
    /\ living_entity_count = 0
    /\ pc = "get_events"

Init == InitWith(Docs)

(* filewatcher.py on_modified: the file was saved with one of `docs` (or made
   unreadable) and the watcher thread pushes an event *)
Save(docs) ==
    /\ Running
    /\ obs.pushed < MaxPushes
    /\ \E content \in docs, readable \in BOOLEAN :
          /\ source' = content
          /\ source_readable' = readable
    /\ events' = Append(events, Event(obs.pushed + 1))
    /\ obs' = [obs EXCEPT !.pushed = @ + 1]
    /\ UNCHANGED <<parsing, component_manager, store, available_entities, living_entity_count, drained, llm_cache,
                   run_cache, last_call_time, now, rendered_doc, generated_file, pc, todo,
                   crashed>>

on_modified == Save(Docs)

on_modified_render == Save(RenderDocs)

(* self.events[:] *)
events_copy(evs) == SubSeq(evs, 1, Len(evs))

(* EventBus.get_events, first statement: events = self.events[:] *)
GetEventsCopy ==
    /\ Running
    /\ pc = "get_events"
    /\ obs.ticks < MaxTicks
    /\ drained' = events_copy(events)
    /\ pc' = "clear"
    /\ UNCHANGED <<parsing, component_manager, store, available_entities, living_entity_count, events, source,
                   source_readable, llm_cache, run_cache, last_call_time, now, rendered_doc,
                   generated_file, todo, crashed, obs>>

(* EventBus.get_events, second statement: self.events.clear(); return events *)
GetEventsClear ==
    /\ Running
    /\ pc = "clear"
    /\ events' = <<>>
    /\ obs' = [obs EXCEPT !.returned = @ \o Ids(drained)]
    /\ pc' = IF drained = <<>> THEN "embed" ELSE "handle"
    /\ UNCHANGED <<parsing, component_manager, store, available_entities, living_entity_count, drained, source,
                   source_readable, llm_cache, run_cache, last_call_time, now, rendered_doc,
                   generated_file, todo, crashed>>

(* the entities of each raw text in the order `order` *)
EntitiesInOrder(st, order) ==
    [t \in {st["RawText"][e].raw_string : e \in DOMAIN st["RawText"]} |->
        SelectSeq(order, LAMBDA e : st["RawText"][e].raw_string = t)]

(* one iteration of the loop of GeneratorParsingSystem.update *)
HandleEvent ==
    /\ Running
    /\ pc = "handle"
    /\ \E order \in ReconcilerOrders(store) :
          LET w == handle_file_modified_v2(
                       World(store, available_entities, living_entity_count),
                       source_readable, source, order)
          IN /\ store' = w.store
             /\ available_entities' = w.available_entities
             /\ living_entity_count' = w.living_entity_count
             /\ crashed' = w.exc
             /\ pc' = IF w.exc # "" THEN "stopped"
                      ELSE IF Len(drained) = 1 THEN "embed" ELSE "handle"
             /\ obs' = [obs EXCEPT !.handled = Append(@, Head(drained).id),
                                   !.visited = EntitiesInOrder(store, order),
                                   !.remaining = remaining_entities(
                                       World(store, available_entities, living_entity_count),
                                       source_readable, source, order),
                                   !.warned = remaining_entities(
                                       World(store, available_entities, living_entity_count),
                                       source_readable, source, order)
                                       \cap DOMAIN store["MarkedForDeletion"],
                                   !.reconciled = IF w.exc = "" THEN Some(source) ELSE @,
                                   !.raised_in = IF w.exc = "" THEN @
                                                 ELSE "GeneratorParsingSystem.update"]
    /\ drained' = Tail(drained)
    /\ UNCHANGED <<parsing, component_manager, events, source, source_readable, llm_cache, run_cache, last_call_time,
                   now, rendered_doc, generated_file, todo>>

(* LabelEmbeddingSystem.update *)
LabelEmbeddingUpdate ==
    /\ Running
    /\ pc = "embed"
    /\ \E order \in EmbeddingOrders(store) :
          store' = label_embedding_update(store, order)
    /\ todo' = DOMAIN store["Command"]
    /\ pc' = IF DOMAIN store["Command"] = {} THEN "render" ELSE "command"
    /\ obs' = [obs EXCEPT !.reached = {}, !.dispatched = {}, !.missing = {}]
    /\ UNCHANGED <<parsing, component_manager, available_entities, living_entity_count, events, drained, source,
                   source_readable, llm_cache, run_cache, last_call_time, now, rendered_doc,
                   generated_file, crashed>>

(* one iteration of the loop of CommandSystem.update; the environment decides
   the time that has passed, what the query API does, what the child process
   does and whether the file to insert exists *)
CommandStep ==
    /\ Running
    /\ pc = "command"
    /\ \E entity \in todo :
       LET command == store["Command"][entity].command
       IN \E dt \in (IF command = "gen" THEN {d \in ClockSteps : now + d <= ClockEnd}
                     ELSE {0}),
             api \in (IF command = "gen" THEN {"ok", "error"} ELSE {"ok"}),
             proc \in (IF command = "run" THEN {"ok", "empty", "fail", "raise"} ELSE {"ok"}),
             found \in (IF command = "insert" THEN BOOLEAN ELSE {TRUE}) :
          LET c == command_update_entity(
                       [store |-> store, llm_cache |-> llm_cache, run_cache |-> run_cache,
                        last_call_time |-> last_call_time, exc |-> "",
                        obs |-> [obs EXCEPT !.reached = @ \cup {entity},
                                            !.missing = IF command = "insert" /\ ~found
                                                        THEN @ \cup {entity} ELSE @]],
                       entity, now + dt, api, proc, found)
          IN /\ now' = now + dt
             /\ store' = c.store
             /\ llm_cache' = c.llm_cache
             /\ run_cache' = c.run_cache
             /\ last_call_time' = c.last_call_time
             /\ obs' = [c.obs EXCEPT !.raised_in = IF c.exc = "" THEN @
                                                   ELSE "CommandSystem.update"]
             /\ crashed' = c.exc
             /\ todo' = todo \ {entity}
             /\ pc' = IF c.exc # "" THEN "stopped"
                      ELSE IF todo = {entity} THEN "render" ELSE "command"
    /\ UNCHANGED <<parsing, component_manager, available_entities, living_entity_count, events, drained, source,
                   source_readable, rendered_doc, generated_file>>

(* RenderSystem.update; the tick ends here *)
RenderUpdate ==
    /\ Running
    /\ pc = "render"
    /\ \E marked \in Orders(DOMAIN store["MarkedForDeletion"]),
          order \in Orders(SharingIndex(store)) :
          LET w == handle_marked_for_deletion_entities(
                       World(store, available_entities, living_entity_count), marked)
              sections_map == render_sections_map(w.store, active_section_entities(w.store),
                                                  order)
              doc == render_text(sections_map)
              write == should_write(rendered_doc, doc)
          IN /\ store' = w.store
             /\ available_entities' = w.available_entities
             /\ living_entity_count' = w.living_entity_count
             /\ rendered_doc' = IF write THEN Some(doc) ELSE rendered_doc
             /\ generated_file' = IF write THEN doc ELSE generated_file
             /\ obs' = [obs EXCEPT !.ticks = @ + 1,
                                   !.visited = EmptyFn,
                                   !.remaining = {},
                                   !.section_entities = active_section_entities(w.store),
                                   !.sections_map = sections_map,
                                   !.assembled = Some(doc),
                                   !.writes = IF write THEN @ + 1 ELSE @,
                                   !.last_write = IF write THEN Some(doc) ELSE @]
    /\ pc' = "get_events"
    /\ UNCHANGED <<parsing, component_manager, events, drained, source, source_readable, llm_cache, run_cache,
                   last_call_time, now, todo, crashed>>

Next == \/ on_modified
        \/ GetEventsCopy
        \/ GetEventsClear
        \/ HandleEvent
        \/ LabelEmbeddingUpdate
        \/ CommandStep
        \/ RenderUpdate

Spec == Init /\ [][Next]_vars

(* the same program on the documents of RenderDocs *)
InitRender == InitWith(RenderDocs)

NextRender == \/ on_modified_render
              \/ GetEventsCopy
              \/ GetEventsClear
              \/ HandleEvent
              \/ LabelEmbeddingUpdate
              \/ CommandStep
              \/ RenderUpdate

SpecRender == InitRender /\ [][NextRender]_vars

(* The watched file and the watcher apart: an editor writes the file, the
   watcher thread calls on_modified some time later (and more than once for
   one write), and handle_file_modified_v2 reads whatever the file holds when
   the event is handled. *)
InitWatch == InitWith(WatchDocs)

(* the file is written; no event has been pushed for it yet *)
FileWritten ==
    /\ Running
    /\ obs.written < MaxPushes
    /\ \E content \in WatchDocs : source' = content
    /\ obs' = [obs EXCEPT !.written = @ + 1]
    /\ UNCHANGED <<parsing, component_manager, store, available_entities, living_entity_count, events,
                   drained, source_readable, llm_cache, run_cache, last_call_time, now,
                   rendered_doc, generated_file, pc, todo, crashed>>

(* filewatcher.py on_modified: self.event_bus.push_event('file_modified', ...) *)
on_modified_push ==
    /\ Running
    /\ obs.pushed < MaxPushes
    /\ events' = Append(events, Event(obs.pushed + 1))
    /\ obs' = [obs EXCEPT !.pushed = @ + 1]
    /\ UNCHANGED <<parsing, component_manager, store, available_entities, living_entity_count, drained,
                   source, source_readable, llm_cache, run_cache, last_call_time, now,
                   rendered_doc, generated_file, pc, todo, crashed>>

(* the documents of WatchDocs hold no directive block, so CommandSystem.update
   has no entity to visit *)
NextWatch == \/ FileWritten
             \/ on_modified_push
             \/ GetEventsCopy
             \/ GetEventsClear
             \/ HandleEvent
             \/ LabelEmbeddingUpdate
             \/ RenderUpdate

SpecWatch == InitWatch /\ [][NextWatch]_vars

(* The label resolver over edits of a declaration: the loop has made two
   ticks, one on a document of LabelDocs and, after an edit, one on another
   (the pass, the label embedding, the rendering), so the blocks that refer to
   a label hold their linked labels and their rendered text; the file is then
   modified again. *)

(* the pass of a tick on a readable file `content` without repeated blocks *)
pass_on(w, content) ==
    handle_file_modified_v2(w, TRUE, content, Ascending(DOMAIN w.store["RawText"]))

(* the rest of the tick when no block is a directive: the label embedding,
   then the destruction of the marked entities by the renderer *)
embed_and_destroy(w, order) ==
    LET st == label_embedding_update(w.store, order)
    IN handle_marked_for_deletion_entities(
           [w EXCEPT !.store = st], Ascending(DOMAIN st["MarkedForDeletion"]))

InitLabel ==
    /\ component_manager = InitialComponentManager
    /\ parsing = NotParsing
    /\ drained = <<>>
    /\ source_readable = TRUE
    /\ llm_cache = EmptyFn
    /\ run_cache = EmptyFn
    /\ last_call_time = 0
    /\ now = StartTime
    /\ todo = {}
    /\ crashed = ""
    /\ obs = InitObs
    /\ events = <<>>
    /\ source \in LabelDocs
    /\ \E first \in LabelDocs :
       \E w1 \in {pass_on(World(EmptyStore, InitialQueue, 0), first)} :
       \E t1 \in {embed_and_destroy(w1, Ascending(valid_entities(w1.store)))} :
       \E w2 \in {pass_on(t1, source)} :
       \E order \in EmbeddingOrders(w2.store) :
       \E w \in {embed_and_destroy(w2, order)} :
          /\ store = w.store
          /\ available_entities = w.available_entities
          /\ living_entity_count = w.living_entity_count
          /\ rendered_doc = Some(assemble(w.store, <<>>))
          /\ generated_file = assemble(w.store, <<>>)
    /\ pc = "get_events"

on_modified_label == Save(LabelDocs)

(* the documents of LabelDocs hold no directive block *)
NextLabel == \/ on_modified_label
             \/ GetEventsCopy
             \/ GetEventsClear
             \/ HandleEvent
             \/ LabelEmbeddingUpdate
             \/ RenderUpdate

SpecLabel == InitLabel /\ [][NextLabel]_vars

----------------------------------------------------------------------------
(* The directive executor on its own: the store holds the entities of a
   document of directive blocks, some of them carrying the ParametersComponent
   that handle_insert, handle_run and handle_gen read; the source is not
   modified again. *)

(* ParametersComponent(parameters) of the parsed block, on each of `entities` *)
with_parameters(st, entities) ==
    [st EXCEPT !["Parameters"] =
        [e \in entities |->
            [parameters |-> parse_section(st["RawText"][e].raw_string).parameters,
             render_parameters |-> parse_section(st["RawText"][e].raw_string).parameters]]]

InitCmd ==
    /\ InitCommon
    /\ parsing = NotParsing
    /\ obs = InitObs
    /\ events = <<>>
    /\ source \in CommandDocs
    /\ LET w == handle_file_modified_v2(World(EmptyStore, InitialQueue, 0), TRUE, source, <<>>)
       IN /\ available_entities = w.available_entities
          /\ living_entity_count = w.living_entity_count
          /\ \E entities \in SUBSET DOMAIN w.store["Command"] :
                store = with_parameters(w.store, entities)
    /\ pc = "get_events"

NextCmd == \/ GetEventsCopy
           \/ GetEventsClear
           \/ LabelEmbeddingUpdate
           \/ CommandStep
           \/ RenderUpdate

SpecCmd == InitCmd /\ [][NextCmd]_vars

----------------------------------------------------------------------------
(* Properties of the gen cache (SpecCmd). *)

(* a gen directive that handle_gen takes as far as the cache *)
GenReady(st, e) ==
    /\ has_component(st, e, "Command") /\ st["Command"][e].command = "gen"
    /\ has_component(st, e, "Instruction") /\ has_component(st, e, "Parameters")
    /\ FindUnpopulated(st["Instruction"][e].render_instruction) = <<>>
    /\ ~UnpopulatedInParameters(st["Parameters"][e].render_parameters)
    /\ ~IsNone(get_model(st, st["Parameters"][e].render_parameters))

QueryKeyOf(st, e) ==
    build_query_key(st["Instruction"][e].render_instruction,
                    st["Parameters"][e].render_parameters,
                    The(get_model(st, st["Parameters"][e].render_parameters)).name)

(* With the ParametersComponent in place and as long as no call of call_llm
   has returned the rate-limited flag, every query key has been sent to
   call_llm exactly once, its response is cached unflagged, and every
   directive handled with it on this tick shows the cached response. *)
GenCacheOneQueryPerKey ==
    ~obs.rate_limited =>
        /\ \A k \in DOMAIN obs.handlings :
              /\ Count(obs.llm_calls, k) = 1
              /\ k \in DOMAIN llm_cache
              /\ ~llm_cache[k].rate_limited
        /\ \A e \in obs.dispatched :
              GenReady(store, e) =>
                 store["RenderedText"][e] = llm_cache[QueryKeyOf(store, e)].response

(* the entity the step of CommandSystem.update handled *)
Handled == CHOOSE e \in todo : e \notin todo'

(* C2: a handling by handle_gen that finds a stable entry for its key makes no
   call and shows the cached response; one that finds no entry, or an entry
   flagged rate-limited, calls the query service again and stores what the
   call returned, the flag as returned; so a rate-limited response is retried
   on every handling until a response that is not rate-limited is stored. *)
C2_RateLimitedIsRetried ==
    [][\A k \in DOMAIN obs'.handlings :
          Count(obs'.handlings, k) = Count(obs.handlings, k) + 1 =>
             IF k \in DOMAIN llm_cache /\ ~llm_cache[k].rate_limited
             THEN /\ Count(obs'.llm_calls, k) = Count(obs.llm_calls, k)
                  /\ llm_cache' = llm_cache
                  /\ store'["RenderedText"][Handled] = llm_cache[k].response
             ELSE /\ Count(obs'.llm_calls, k) = Count(obs.llm_calls, k) + 1
                  /\ The(obs'.last_call).key = k
                  /\ llm_cache'[k].rate_limited = The(obs'.last_call).rate_limited
                  /\ llm_cache'[k].response = The(obs'.last_call).text
                  /\ store'["RenderedText"][Handled] = The(obs'.last_call).text]_vars

CountSum(f) == LET RECURSIVE Sum(_)
                   Sum(K) == IF K = {} THEN 0
                             ELSE LET k == CHOOSE x \in K : TRUE IN f[k] + Sum(K \ {k})
               IN Sum(DOMAIN f)

(* a key whose first response was the rate limiter's placeholder (a call that
   did not reach the query API), retried, stored stable and then served *)
C2_Witness ==
    /\ CountSum(obs.llm_calls) > obs.api_calls
    /\ \E e \in obs.served :
          /\ GenReady(store, e)
          /\ Count(obs.llm_calls, QueryKeyOf(store, e)) >= 2
          /\ ~llm_cache[QueryKeyOf(store, e)].rate_limited

----------------------------------------------------------------------------
(* Properties of the reconciler (Spec). *)

(* the step is an iteration of the loop of GeneratorParsingSystem.update *)
HandlesEvent == obs'.handled # obs.handled

Live(st) == DOMAIN st["RawText"] \ DOMAIN st["MarkedForDeletion"]

(* C3: handling a file_modified event when the source is the one the store
   was last reconciled with creates, tombstones and destroys no entity,
   changes no Position index and leaves no dirty flag set, also when several
   blocks of the document have the same raw text. *)
C3_UnchangedSourceIsNoOp ==
    [][(HandlesEvent /\ source_readable /\ obs.reconciled = Some(source)) =>
          /\ crashed' = ""
          /\ valid_entities(store') = valid_entities(store)
          /\ available_entities' = available_entities
          /\ DOMAIN store'["MarkedForDeletion"] = DOMAIN store["MarkedForDeletion"]
          /\ store'["Index"] = store["Index"]
          /\ \A e \in DOMAIN store'["RawText"] : ~store'["RawText"][e].dirty]_vars

(* new is old with the blocks at positions i and i+1 (from 1) exchanged *)
SwappedAt(old, new, i) ==
    /\ i \in 1..(Len(old) - 1)
    /\ old[i] # old[i + 1]
    /\ new = [j \in 1..Len(old) |-> IF j = i THEN old[i + 1]
                                    ELSE IF j = i + 1 THEN old[i] ELSE old[j]]

(* the components of an entity, the dirty flag left out *)
ComponentsOf(st, e) ==
    [t \in {u \in ComponentTypes : e \in DOMAIN st[u]} |->
        IF t = "RawText" THEN [st[t][e] EXCEPT !.dirty = FALSE] ELSE st[t][e]]

(* C4: when the source differs from the one the store was last reconciled
   with only by the exchange of two adjacent blocks, handling the event keeps
   the entity ids, creates and tombstones no entity, leaves the run and gen
   caches alone, and changes no component of an entity other than the two
   exchanged ones (whose Position and dirty flag change). *)
C4_SwapKeepsIdentity ==
    [][\A i \in 1..Len(NonConfigSections(source)) :
          (/\ HandlesEvent /\ source_readable /\ ~IsNone(obs.reconciled)
           /\ DOMAIN store["MarkedForDeletion"] = {}
           /\ SwappedAt(NonConfigSections(The(obs.reconciled)), NonConfigSections(source), i))
          =>
          /\ crashed' = ""
          /\ valid_entities(store') = valid_entities(store)
          /\ available_entities' = available_entities
          /\ DOMAIN store'["MarkedForDeletion"] = {}
          /\ llm_cache' = llm_cache /\ run_cache' = run_cache
          /\ \A e \in DOMAIN store["RawText"] :
                IF store["Index"][e] \in {i - 1, i}
                THEN /\ store'["Index"][e] \in {i - 1, i} \ {store["Index"][e]}
                     /\ store'["RawText"][e].dirty
                ELSE ComponentsOf(store', e) = ComponentsOf(store, e)]_vars

(* C8: when the source cannot be read, handling the event leaves the store
   and the entity pool exactly as they were and does not end the processing
   loop: the next event of the drain, or the next system, runs. *)
C8_UnreadableSourceSkipped ==
    [][(HandlesEvent /\ ~source_readable) =>
          /\ store' = store
          /\ available_entities' = available_entities
          /\ living_entity_count' = living_entity_count
          /\ crashed' = ""
          /\ pc' \in {"handle", "embed"}]_vars

MalformedParameters(content) ==
    \E i \in 1..Len(NonConfigSections(content)) :
        parse_section(NonConfigSections(content)[i]).error

(* C9: when a block of the source has a line in the parameters state that is
   neither led by a backslash nor holds `=`, handling the event is not fatal:
   every block of the source, the malformed one included, is carried by a
   live entity at its position, and the tick goes on. *)
C9_MalformedParametersNotFatal ==
    [][(HandlesEvent /\ source_readable /\ MalformedParameters(source)) =>
          /\ crashed' = ""
          /\ pc' \in {"handle", "embed"}
          /\ \A i \in 1..Len(NonConfigSections(source)) :
                \E e \in Live(store') :
                   /\ store'["RawText"][e].raw_string = NonConfigSections(source)[i]
                   /\ store'["Index"][e] = i - 1]_vars

----------------------------------------------------------------------------
(* Properties of the event bus (Spec). *)

Occurrences(seq, x) == Cardinality({i \in 1..Len(seq) : seq[i] = x})

(* C6: every event pushed so far is either still on the bus or has been
   returned by exactly one call of get_events, whatever the interleaving of
   push_event with the copy and the clear of get_events. *)
C6_EveryEventReturnedOnce ==
    \A id \in 0..obs.pushed :
        Occurrences(Ids(events), id) + Occurrences(obs.returned, id) = 1

IsPrefix(s, t) == Len(s) <= Len(t) /\ SubSeq(t, 1, Len(s)) = s

Increasing(seq) == \A i, j \in 1..Len(seq) : i < j => seq[i] < seq[j]

(* C7: get_events returns the events in the order in which they were pushed
   (ids are given in push order), the reconciler handles them in that order,
   and once get_events has returned the bus holds none of the events it
   returned. *)
C7_DrainInPushOrder ==
    /\ Increasing(Ids(drained))
    /\ Increasing(obs.returned)
    /\ IsPrefix(obs.handled, obs.returned)
    /\ SeqToSet(Ids(events)) \cap SeqToSet(obs.returned) = {}

(* two events returned by one call of get_events and handled in push order *)
C7_Witness ==
    /\ obs.ticks = 0
    /\ obs.returned = <<0, 1>>
    /\ obs.handled = <<0, 1>>
    /\ crashed = ""

----------------------------------------------------------------------------
(* Properties of the directive executor (Spec). *)

(* the parameters of a directive after label resolution *)
ResolvedParameters(st, e) ==
    IF has_component(st, e, "Parameters") THEN st["Parameters"][e].render_parameters
    ELSE st["Command"][e].parameters

(* a gen directive with a resolved instruction and a configured model *)
GenDirective(st, e) ==
    /\ st["Command"][e].command = "gen"
    /\ has_component(st, e, "Instruction")
    /\ FindEmbeddings(st["Instruction"][e].render_instruction) = <<>>
    /\ ~IsNone(get_model(st, ResolvedParameters(st, e)))

GenKey(st, e) ==
    build_query_key(st["Instruction"][e].render_instruction, ResolvedParameters(st, e),
                    The(get_model(st, ResolvedParameters(st, e))).name)

(* C1: as long as no call of the query service (call_llm) has returned a
   rate-limited response, handling a gen directive with a resolved
   instruction and a configured model ends with the query for its key sent
   exactly once in total, by this handling or by an earlier one of this or of
   another directive with the same instruction, parameters and model, with
   the response in the gen cache and as the directive's rendered text. *)
C1_OneQueryForIdenticalGen ==
    [][\A e \in todo :
          (/\ pc = "command" /\ e \notin todo'
           /\ GenDirective(store, e)
           /\ ~obs'.rate_limited)
          =>
          /\ crashed' = ""
          /\ Count(obs'.llm_calls, GenKey(store, e)) = 1
          /\ GenKey(store, e) \in DOMAIN llm_cache'
          /\ has_component(store', e, "RenderedText")
          /\ store'["RenderedText"][e] = llm_cache'[GenKey(store, e)].response]_vars

InCommandUpdate == pc \in {"command", "render"}

Unresolved(st, e) ==
    \/ /\ has_component(st, e, "Instruction")
       /\ FindEmbeddings(st["Instruction"][e].render_instruction) # <<>>
    \/ /\ has_component(st, e, "Parameters")
       /\ \E i \in 1..Len(st["Parameters"][e].render_parameters) :
             \E j \in 1..Len(st["Parameters"][e].render_parameters[i].values) :
                FindEmbeddings(st["Parameters"][e].render_parameters[i].values[j]) # <<>>

(* C5: a directive that CommandSystem.update has reached and whose resolved
   instruction or a resolved parameter value still holds a `:name:` marker
   has not been handed to handle_insert, handle_run or handle_gen, and its
   rendered text is `?` followed by the command. *)
C5_UnresolvedNeverDispatched ==
    InCommandUpdate =>
        \A e \in obs.reached :
            Unresolved(store, e) =>
               /\ e \notin obs.dispatched
               /\ has_component(store, e, "RenderedText")
               /\ store["RenderedText"][e] = QuestionMark(store["Command"][e].command)

(* C10: no exception leaves CommandSystem.update: every directive handed to a
   handler ends with a rendered text, with or without instruction, parameters
   or a configured model; the loop reaches every directive and the renderer
   runs. *)
C10_DirectiveFailuresLocal ==
    /\ obs.raised_in # "CommandSystem.update"
    /\ InCommandUpdate =>
          \A e \in obs.dispatched : has_component(store, e, "RenderedText")
    /\ pc = "render" => DOMAIN store["Command"] \subseteq obs.reached

----------------------------------------------------------------------------
(* Properties of a tick from the directive executor to the written document
   (SpecRender). *)

(* C11: when CommandSystem.update has run to its end in a tick, every entity
   with a CommandComponent has a RenderedTextComponent, whatever path the
   loop took for it: gated, insert, run, gen, a command name that is none of
   the three, a cache hit or an error. *)
C11_EveryDirectiveRendered ==
    pc = "render" =>
        \A e \in get_entities_with_component(store, "Command") :
            has_component(store, e, "RenderedText")

GreetDoc == Doc(<<Greet, RunHiDot>>)

(* the first tick has reconciled the store with GreetDoc and nothing after it *)
GreetReconciled == obs.reconciled = Some(GreetDoc) /\ Len(obs.handled) = 1

(* C12: for the source `/greet`, `Hello`, `\greet`, blank line,
   `?run echo hi`, `.`: the first block is prose with opening label greet,
   the second a directive with command run and instruction exactly
   `echo hi`, the tick runs to its end, and after this one tick the output
   file holds `Hello`, a blank line, `hi`, newline. *)
C12_GreetScenario ==
    GreetReconciled =>
        /\ \E e \in DOMAIN store["RawText"] :
              /\ store["Index"][e] = 0
              /\ store["SectionType"][e] = "text"
              /\ has_component(store, e, "OpeningLabel")
              /\ store["OpeningLabel"][e] = {<<"greet">>}
        /\ \E e \in DOMAIN store["RawText"] :
              /\ store["Index"][e] = 1
              /\ store["SectionType"][e] = "command"
              /\ store["Command"][e].command = "run"
              /\ has_component(store, e, "Instruction")
              /\ store["Instruction"][e].instruction = <<"echo", "hi">>
        /\ crashed = ""
        /\ obs.ticks = 1 => generated_file = <<"Hello", "\n\n", "hi", "\n">>

(* the texts of a sections map in ascending index order, "\n\n" between each
   two consecutive ones *)
RECURSIVE JoinSections(_)
JoinSections(sections_map) ==
    IF DOMAIN sections_map = {} THEN <<>>
    ELSE LET index == Min(DOMAIN sections_map)
             rest == [i \in DOMAIN sections_map \ {index} |-> sections_map[i]]
         IN IF DOMAIN rest = {} THEN sections_map[index]
            ELSE sections_map[index] \o <<"\n\n">> \o JoinSections(rest)

(* C13: the document render_text returns for a sections map is the texts of
   the map in strictly ascending index order with exactly one "\n\n" between
   each two consecutive sections, also when the text of a section is empty. *)
C13_RenderTextJoins ==
    ~IsNone(obs.assembled) => The(obs.assembled) = JoinSections(obs.sections_map)

(* RenderSystem.update has just run: the store is as it left it *)
Rendered == pc = "get_events" /\ obs.ticks >= 1 /\ crashed = ""

(* the live blocks that declare the opening label focus *)
FocusBlocks(st) ==
    {e \in Live(st) : has_component(st, e, "OpeningLabel") /\ <<"focus">> \in st["OpeningLabel"][e]}

(* the document made of the texts of the blocks `blocks`, by position *)
DocumentOf(st, blocks) ==
    render_text([i \in {st["Index"][e] : e \in blocks} |->
                    SectionText(st, CHOOSE e \in blocks : st["Index"][e] = i)])

(* C14: after RenderSystem.update, if a live block declares the opening label
   focus, the document in the output file is assembled from the blocks that
   declare it and only from them, so that it holds nothing but their texts
   and the separator; if no live block declares it, the document is
   assembled from all live blocks that carry raw text. *)
C14_FocusScopesDocument ==
    Rendered =>
        LET active == IF FocusBlocks(store) # {} THEN FocusBlocks(store) ELSE Live(store)
        IN /\ obs.section_entities = active
           /\ generated_file = DocumentOf(store, active)
           /\ SeqToSet(generated_file) \subseteq
                 UNION {SeqToSet(SectionText(store, e)) : e \in active} \cup {"\n\n"}

(* a focus block and a live block outside the focus: only the first is written *)
C14_Witness ==
    /\ Rendered
    /\ FocusBlocks(store) # {}
    /\ \E e \in Live(store) \ FocusBlocks(store) : SectionText(store, e) = <<"B">>
    /\ generated_file = <<"A">>

(* C15: RenderSystem.update writes the output file if and only if the
   document it assembled differs from the document of the last write or
   nothing has been written yet; a write replaces the content of the file
   with the assembled document, and without a write the file stays as it
   is; so no two consecutive writes carry equal content. *)
C15_WriteOnlyOnChange ==
    [][obs'.ticks = obs.ticks + 1 =>
          LET doc == The(obs'.assembled)
              written == obs'.writes = obs.writes + 1
          IN /\ obs'.writes \in {obs.writes, obs.writes + 1}
             /\ IsNone(obs.last_write) <=> obs.writes = 0
             /\ written <=> (IsNone(obs.last_write) \/ The(obs.last_write) # doc)
             /\ written => generated_file' = doc /\ obs'.last_write = Some(doc)
             /\ ~written => generated_file' = generated_file
                            /\ obs'.last_write = obs.last_write]_vars

(* two ticks, the second of which assembled the document of the first and
   did not write *)
C15_Witness ==
    /\ obs.ticks = 2
    /\ obs.writes = 1
    /\ obs.assembled = obs.last_write
    /\ crashed = ""

(* the text handle_insert_command returns for a target that does not exist *)
MissingTargetText(text, parameters) ==
    IF HasParam(parameters, "directory")
    THEN text = <<"ERROR! The directory '">> \o FirstParam(parameters, "directory").values[1]
                    \o <<"' does not exist.">>
    ELSE /\ Len(text) > 2
         /\ Head(text) = "["
         /\ text[Len(text)] = "----------"
         /\ \E i \in 1..Len(text) : text[i] = "' does not exist."

(* C16: handling an insert directive whose `filename`, `file` or `directory`
   parameter names a target that does not exist raises nothing: the error
   text (for a file wrapped in the [path] header and the separator footer)
   becomes the directive's rendered text and the tick goes on. *)
C16_MissingInsertTargetRendered ==
    [][\A e \in obs'.missing \ obs.missing :
          /\ crashed' = ""
          /\ has_component(store', e, "RenderedText")
          /\ MissingTargetText(store'["RenderedText"][e], ResolvedParameters(store', e))]_vars

(* the same for the directives that carry a ParametersComponent *)
InsertMissingTargetHandled ==
    [][\A e \in obs'.missing \ obs.missing :
          has_component(store, e, "Parameters") =>
             /\ crashed' = ""
             /\ has_component(store', e, "RenderedText")
             /\ MissingTargetText(store'["RenderedText"][e], ResolvedParameters(store', e))]_vars

(* a missing file and a missing directory handled with the parameters in place *)
InsertMissingTargetReached ==
    \E e \in obs.missing :
        /\ has_component(store, e, "Parameters")
        /\ HasParam(ResolvedParameters(store, e), "directory")

----------------------------------------------------------------------------
(* The entity manager and the component manager on their own: a caller makes
   up to MaxCalls calls of create_entity, destroy_entity, add_component and
   remove_component; a call whose assertion fails leaves the managers as they
   were.  `store` is kept next to the manager as the view the other
   specifications use. *)

ManagerTypes == {"Index", "MarkedForDeletion"}
ManagerEntities == {0, MAX_ENTITIES - 1}
ManagerComponents == {"c1", "c2"}

(* the ids 0..fresh-1 have been handed out by create_entity, none destroyed *)
InitEcs ==
    /\ InitCommon
    /\ parsing = NotParsing
    /\ events = <<>>
    /\ source = <<>>
    /\ store = EmptyStore
    /\ \E fresh \in {0, MAX_ENTITIES - 1} :
          /\ available_entities = [fresh |-> fresh, recycled |-> <<>>]
          /\ living_entity_count = fresh
          /\ obs = [InitObs EXCEPT !.live = 0..(fresh - 1)]
    /\ pc = "managers"

Call(op, entity, component_type, component, failed) ==
    Some([op |-> op, entity |-> entity, component_type |-> component_type,
          component |-> component, failed |-> failed])

ManagersOnly == UNCHANGED <<parsing, events, drained, source, source_readable, llm_cache, run_cache,
                            last_call_time, now, rendered_doc, generated_file, pc, todo, crashed>>

(* EntityManager.create_entity *)
CreateEntity ==
    /\ obs.calls < MaxCalls
    /\ LET w == create_entity_with(World(store, available_entities, living_entity_count),
                                   EmptyFn)
           failed == w.exc # ""
           entity == IF failed THEN -1 ELSE QueueGet(available_entities)
       IN /\ available_entities' = w.available_entities
          /\ living_entity_count' = w.living_entity_count
          /\ obs' = [obs EXCEPT !.calls = @ + 1,
                                !.call = Call("create_entity", entity, "", "", failed),
                                !.live = IF failed THEN @ ELSE @ \cup {entity}]
    /\ UNCHANGED <<store, component_manager>>
    /\ ManagersOnly

(* EntityManager.destroy_entity of an entity that is live *)
DestroyEntity ==
    /\ obs.calls < MaxCalls
    /\ \E entity \in ManagerEntities \cap obs.live :
          LET w == destroy_entity(World(store, available_entities, living_entity_count), entity)
          IN /\ store' = w.store
             /\ component_manager' = manager_remove_all_components(component_manager, entity)
             /\ available_entities' = w.available_entities
             /\ living_entity_count' = w.living_entity_count
             /\ obs' = [obs EXCEPT !.calls = @ + 1,
                                   !.call = Call("destroy_entity", entity, "", "", FALSE),
                                   !.live = @ \ {entity},
                                   !.destroyed = IF is_valid_entity(component_manager, entity)
                                                 THEN @ \cup {entity} ELSE @]
    /\ ManagersOnly

(* ComponentManager.add_component *)
AddComponent ==
    /\ obs.calls < MaxCalls
    /\ \E entity \in ManagerEntities, component_type \in ManagerTypes,
          component \in ManagerComponents :
          LET r == manager_add_component(component_manager, entity, component_type, component)
          IN /\ component_manager' = r.cm
             /\ store' = IF r.ok THEN add_component(store, entity, component_type, component)
                         ELSE store
             /\ obs' = [obs EXCEPT !.calls = @ + 1,
                                   !.call = Call("add_component", entity, component_type,
                                                 component, ~r.ok)]
    /\ UNCHANGED <<available_entities, living_entity_count>>
    /\ ManagersOnly

(* ComponentManager.remove_component *)
RemoveComponent ==
    /\ obs.calls < MaxCalls
    /\ \E entity \in ManagerEntities, component_type \in ManagerTypes :
          LET r == manager_remove_component(component_manager, entity, component_type)
          IN /\ component_manager' = r.cm
             /\ store' = IF r.ok
                         THEN [store EXCEPT ![component_type] =
                                  [e \in DOMAIN @ \ {entity} |-> @[e]]]
                         ELSE store
             /\ obs' = [obs EXCEPT !.calls = @ + 1,
                                   !.call = Call("remove_component", entity, component_type,
                                                 "", ~r.ok)]
    /\ UNCHANGED <<available_entities, living_entity_count>>
    /\ ManagersOnly

NextEcs == \/ CreateEntity
           \/ DestroyEntity
           \/ AddComponent
           \/ RemoveComponent

SpecEcs == InitEcs /\ [][NextEcs]_vars

----------------------------------------------------------------------------
(* Properties of the managers (SpecEcs). *)

(* the store of the other specifications is the manager's arrays, and the
   fields of the manager agree with each other *)
StoreIsView ==
    /\ store = ViewOf(component_manager)
    /\ \A t \in ComponentTypes :
          LET array == component_manager.component_arrays[t]
          IN /\ DOMAIN array.component_storage = array.entity_to_component_mapping
             /\ array.component_count = Cardinality(array.entity_to_component_mapping)
    /\ component_manager.valid_entities = valid_entities(store)

(* the step is a call of `op` *)
Calls(op) == obs'.calls = obs.calls + 1 /\ The(obs'.call).op = op

(* C17: add_component(e, c) fails when e already carries a component of c's
   type and succeeds exactly when it carries none; a failed call leaves the
   stored component of e, the per-type entity set and the component count
   as they were, a successful one stores c. *)
C17_AddComponentOnce ==
    [][Calls("add_component") =>
          LET call == The(obs'.call)
              e == call.entity
              t == call.component_type
              before == component_manager.component_arrays[t]
              after == component_manager'.component_arrays[t]
          IN /\ call.failed <=> manager_has_component(component_manager, e, t)
             /\ call.failed =>
                   /\ after.component_storage[e] = before.component_storage[e]
                   /\ after.component_count = before.component_count
                   /\ component_manager'.entities_by_component_type[t]
                         = component_manager.entities_by_component_type[t]
                   /\ component_manager' = component_manager
             /\ ~call.failed =>
                   /\ manager_has_component(component_manager', e, t)
                   /\ after.component_storage[e] = call.component
                   /\ after.component_count = before.component_count + 1
                   /\ e \in component_manager'.entities_by_component_type[t]]_vars

(* an add_component that failed, for an entity that carries another component
   of that type than the one offered *)
C17_Witness ==
    /\ ~IsNone(obs.call)
    /\ The(obs.call).op = "add_component"
    /\ The(obs.call).failed
    /\ component_manager.component_arrays[The(obs.call).component_type]
          .component_storage[The(obs.call).entity] # The(obs.call).component

(* C18: create_entity fails when all MAX_ENTITIES ids of the pool are live
   and only then; otherwise it returns an id in 0..MAX_ENTITIES-1; and after
   every call of create_entity or destroy_entity the number of live entities
   is at most MAX_ENTITIES. *)
C18_PoolIsBounded ==
    [][/\ Calls("create_entity") =>
             /\ The(obs'.call).failed <=> Cardinality(obs.live) = MAX_ENTITIES
             /\ ~The(obs'.call).failed => The(obs'.call).entity \in 0..(MAX_ENTITIES - 1)
       /\ living_entity_count' <= MAX_ENTITIES
       /\ Cardinality(obs'.live) <= MAX_ENTITIES
       /\ living_entity_count' = Cardinality(obs'.live)]_vars

(* create_entity has failed with every id of the pool live *)
C18_Witness ==
    /\ ~IsNone(obs.call)
    /\ The(obs.call).op = "create_entity"
    /\ The(obs.call).failed
    /\ living_entity_count = MAX_ENTITIES
    /\ obs.live = 0..(MAX_ENTITIES - 1)

(* C19: after destroy_entity(e) of a live entity e, e carries no component of
   any type, is in no per-type entity set, is not a valid entity, and its id
   is in the queue of free ids, from which create_entity hands ids out. *)
C19_DestroyReleases ==
    [][Calls("destroy_entity") =>
          LET e == The(obs'.call).entity
          IN /\ \A t \in ComponentTypes :
                   /\ ~manager_has_component(component_manager', e, t)
                   /\ e \notin DOMAIN component_manager'.component_arrays[t].component_storage
                   /\ e \notin manager_get_entities_with_component(component_manager', t)
                   /\ ~has_component(store', e, t)
             /\ ~is_valid_entity(component_manager', e)
             /\ QueueHolds(available_entities', e)
             /\ ~QueueHolds(available_entities, e)]_vars

(* create_entity has handed out the id of an entity that was destroyed while
   it carried a component *)
C19_Witness ==
    /\ ~IsNone(obs.call)
    /\ The(obs.call).op = "create_entity"
    /\ ~The(obs.call).failed
    /\ The(obs.call).entity \in obs.destroyed

(* the sequences of up to two component types *)
TypeLists == {<<>>} \cup {<<t>> : t \in ManagerTypes}
                 \cup {<<t1, t2>> : t1 \in ManagerTypes, t2 \in ManagerTypes}

(* every entity some field of the manager knows, and those of the calls *)
KnownEntities(cm) ==
    ManagerEntities
        \cup UNION {cm.component_arrays[t].entity_to_component_mapping : t \in ComponentTypes}
        \cup UNION {cm.entities_by_component_type[t] : t \in ComponentTypes}

(* C20: after any sequence of add_component, remove_component and
   destroy_entity calls, get_entities_with_components(T1..Tn) is exactly the
   set of entities for which has_component holds for every Ti, the empty set
   when no type is given, and get_entities_with_component(T) is exactly the
   set of entities that carry T. *)
C20_QueriesMatchHasComponent ==
    /\ \A types \in TypeLists :
          get_entities_with_components(component_manager, types) =
             IF types = <<>> THEN {}
             ELSE {e \in KnownEntities(component_manager) :
                      \A i \in 1..Len(types) :
                         manager_has_component(component_manager, e, types[i])}
    /\ \A t \in ComponentTypes :
          manager_get_entities_with_component(component_manager, t) =
             {e \in KnownEntities(component_manager) :
                 manager_has_component(component_manager, e, t)}

(* after a removal, two types are carried together by one entity and the
   first of them by no other *)
C20_Witness ==
    /\ ~IsNone(obs.call)
    /\ The(obs.call).op \in {"remove_component", "destroy_entity"}
    /\ ~The(obs.call).failed
    /\ get_entities_with_components(component_manager, <<"Index", "MarkedForDeletion">>) = {0}
    /\ obs.live = 0..(MAX_ENTITIES - 2)

----------------------------------------------------------------------------
(* The reconciler and its tombstones. *)

(* the entity that backs block `i` (from 1) of the parsed blocks `raws` *)
Backs(st, e, raws, i) ==
    /\ e \in DOMAIN st["RawText"]
    /\ st["RawText"][e].raw_string = raws[i]
    /\ st["Index"][e] = i - 1

(* C21: an entity that carries MarkedForDeletionComponent is not claimed by a
   pass: after every pass that ran to its end, each block of the parse is
   backed by an entity without MarkedForDeletionComponent, one the renderer
   does not destroy. *)
C21_TombstonedNeverClaimed ==
    (crashed = "" /\ pc \in {"handle", "embed"} /\ ~IsNone(obs.reconciled)) =>
        LET raws == NonConfigSections(The(obs.reconciled))
        IN \A i \in 1..Len(raws) :
              \E e \in Live(store) : Backs(store, e, raws, i)

(* the components entity `e` carries *)
Carried(st, e) == {t \in ComponentTypes : e \in DOMAIN st[t]}

(* C22: a pass that runs to its end leaves a MarkedForDeletionComponent on
   every entity that existed before it and that no parsed block claimed, one
   that was marked before included, and does not fail; the next
   RenderSystem.update destroys every marked entity before it assembles the
   document, so none of them is among the entities the document is built from. *)
C22_UnclaimedMarkedThenDestroyed ==
    [][/\ HandlesEvent =>
            /\ crashed' = ""
            /\ obs'.remaining =
                   {e \in DOMAIN store["RawText"] :
                       \A i \in 1..Len(NonConfigSections(source)) :
                           ~Backs(store', e, NonConfigSections(source), i)}
            /\ \A e \in obs'.remaining : "MarkedForDeletion" \in Carried(store', e)
            /\ \A e \in DOMAIN store["MarkedForDeletion"] :
                   "MarkedForDeletion" \in Carried(store', e)
       /\ obs'.ticks # obs.ticks =>
            \A e \in DOMAIN store["MarkedForDeletion"] :
                /\ Carried(store', e) = {}
                /\ e \notin obs'.section_entities
                /\ QueueHolds(available_entities', e)
      ]_vars

(* an entity that was already marked was left unclaimed by a later pass of the
   same tick, and the renderer has destroyed it *)
C22_Witness ==
    /\ Rendered
    /\ obs.warned # {}
    /\ \A e \in obs.warned : Carried(store, e) = {}

(* the positions (from 0) of the blocks of `raws` whose raw text is `t`, ascending *)
PositionsOf(raws, t) ==
    LET at == SelectSeq([i \in 1..Len(raws) |-> i], LAMBDA i : raws[i] = t)
    IN [j \in 1..Len(at) |-> at[j] - 1]

(* the components a block entity carries when it is created *)
DerivedTypes(section) ==
    {"RawText", "Index", "SectionType"}
        \cup (IF IsNone(section.text_content) THEN {} ELSE {"TextContent"})
        \cup (IF IsNone(section.command) THEN {} ELSE {"Command"})
        \cup (IF IsNone(section.instruction) THEN {} ELSE {"Instruction"})
        \cup (IF section.opening_labels = <<>> THEN {} ELSE {"OpeningLabel"})
        \cup (IF section.closing_labels = <<>> THEN {} ELSE {"ClosingLabel"})

(* C23: in a pass that runs to its end, for a raw text t with k parsed blocks
   and m entities that carry t when the pass starts (listed in the order the
   RawText set is iterated): the first min(k, m) entities of the list are
   reused, the j-th for the j-th block of t in parse order; max(0, k - m) new
   entities are created for the blocks that follow, each with every component
   derived from the block; the max(0, m - k) entities left in the list carry a
   MarkedForDeletionComponent, and no other entity gets one. *)
C23_ReuseCreateTombstone ==
    [][(HandlesEvent /\ crashed' = "") =>
          LET raws == NonConfigSections(source)
              old == DOMAIN store["RawText"]
              texts == SeqToSet(raws) \cup {store["RawText"][e].raw_string : e \in old}
              list(t) == IF t \in DOMAIN obs'.visited THEN obs'.visited[t] ELSE <<>>
              created(t) == {e \in DOMAIN store'["RawText"] \ old :
                                store'["RawText"][e].raw_string = t}
              left == UNION {{list(t)[j] : j \in (Len(PositionsOf(raws, t)) + 1)..Len(list(t))} :
                                t \in texts}
          IN /\ \A t \in texts :
                   LET at == PositionsOf(raws, t)
                       k == Len(at)
                       m == Len(list(t))
                   IN /\ \A j \in 1..Min({k, m}) :
                            /\ store'["RawText"][list(t)[j]].raw_string = t
                            /\ store'["Index"][list(t)[j]] = at[j]
                      /\ Cardinality(created(t)) = (IF k > m THEN k - m ELSE 0)
                      /\ {store'["Index"][e] : e \in created(t)} = {at[j] : j \in (m + 1)..k}
                      /\ \A e \in created(t) : Carried(store', e) = DerivedTypes(parse_section(t))
                      /\ Cardinality({list(t)[j] : j \in (k + 1)..m}) = (IF m > k THEN m - k ELSE 0)
             /\ DOMAIN store'["MarkedForDeletion"] = DOMAIN store["MarkedForDeletion"] \cup left
      ]_vars

(* a pass has reused one of two entities with one raw text and left the other
   marked, and a pass has created an entity beside a reused one *)
C23_Witness ==
    /\ crashed = ""
    /\ pc \in {"handle", "embed"}
    /\ Len(obs.handled) >= 2
    /\ obs.remaining # {}
    /\ \E e \in obs.remaining, f \in Live(store) :
          store["RawText"][e].raw_string = store["RawText"][f].raw_string

(* C24: after every pass that ran to its end, the entities with a raw text and
   without MarkedForDeletionComponent hold pairwise distinct indexes, these are
   exactly 0..n-1 for the n blocks of the parse, and each entity holds the
   position of a block with its raw text. *)
C24_IndexesAreOrdinals ==
    (crashed = "" /\ pc \in {"handle", "embed"} /\ ~IsNone(obs.reconciled)) =>
        LET raws == NonConfigSections(The(obs.reconciled))
        IN /\ \A e1, e2 \in Live(store) : e1 # e2 => store["Index"][e1] # store["Index"][e2]
           /\ {store["Index"][e] : e \in Live(store)} = 0..(Len(raws) - 1)
           /\ \A e \in Live(store) : Backs(store, e, raws, store["Index"][e] + 1)

(* C25: every entity with a raw text is of exactly one kind: a text section
   with a TextContentComponent and no CommandComponent, or a command section
   with a CommandComponent (and maybe an InstructionComponent) and no
   TextContentComponent; also the entity of a block whose lines all open a
   label. *)
C25_ExactlyOneKind ==
    \A e \in DOMAIN store["RawText"] :
        \/ /\ store["SectionType"][e] = "text"
           /\ {"TextContent", "Command", "Instruction"} \cap Carried(store, e) = {"TextContent"}
        \/ /\ store["SectionType"][e] = "command"
           /\ {"TextContent", "Command"} \cap Carried(store, e) = {"Command"}

----------------------------------------------------------------------------
(* The config entity. *)

(* the lines "!key=value" of the config sections of `content`, in source order *)
ConfigLines(content) ==
    SelectSeq(Flatten(ConfigSections(content)),
              LAMBDA l : l.lead = "!" /\ HasEq(Ln("", l.body)))

(* key -> the value of the last line of `content` that sets it *)
LastValues(content) ==
    LET ls == ConfigLines(content)
        key(i) == SplitKey(Ln("", ls[i].body))
    IN [k \in {key(i) : i \in 1..Len(ls)} |->
           SplitValue(Ln("", ls[CHOOSE i \in 1..Len(ls) :
                                   /\ key(i) = k
                                   /\ \A j \in (i + 1)..Len(ls) : key(j) # k].body))]

(* C26: at most one entity carries a ConfigComponent; the first pass over a
   readable file creates it with the pairs of the file, every later pass
   writes the pairs of its parse into the map of that same entity and keeps
   the other keys; of several lines of one pass that set a key, the value of
   the last one in source order is stored. *)
C26_OneConfigEntity ==
    [][/\ Cardinality(DOMAIN store'["Config"]) <= 1
       /\ (HandlesEvent /\ source_readable) =>
             /\ DOMAIN store["Config"] = {} =>
                   \E e \in DOMAIN store'["Config"] : store'["Config"][e] = LastValues(source)
             /\ \A e \in DOMAIN store["Config"] :
                   /\ e \in DOMAIN store'["Config"]
                   /\ DOMAIN store'["Config"][e] =
                          DOMAIN store["Config"][e] \cup DOMAIN LastValues(source)
                   /\ \A k \in DOMAIN store'["Config"][e] :
                          store'["Config"][e][k] =
                              IF k \in DOMAIN LastValues(source) THEN LastValues(source)[k]
                              ELSE store["Config"][e][k]
      ]_vars

(* the one config entity holds the second of two values a later pass read for
   llm beside the key an earlier pass read *)
C26_Witness ==
    /\ Len(obs.handled) >= 2
    /\ \E e \in DOMAIN store["Config"] :
          /\ DOMAIN store["Config"][e] = {<<"llm">>, <<"llm-api-key">>}
          /\ store["Config"][e][<<"llm">>] = <<"claude">>
          /\ obs.reconciled = Some(Doc(<<ConfigTwice, TextB, TextA>>))

----------------------------------------------------------------------------
(* The label resolver. *)

(* LabelEmbeddingSystem.update is the step taken *)
Embeds == pc = "embed" /\ pc' # "embed"

(* the value published for `label` when a single entity declares it *)
PublishedValue(st, label) ==
    get_replacement_text_by_label(st, label, Ascending(DOMAIN st["OpeningLabel"]))

(* `text` with every reference to a label that has a value replaced by it *)
Resolve(st, text) ==
    Flatten([i \in 1..Len(text) |->
                IF text[i] \in Markers /\ ~IsNone(PublishedValue(st, LabelOf(text[i])))
                THEN The(PublishedValue(st, LabelOf(text[i]))) ELSE <<text[i]>>])

(* the labels `text` refers to that have a value *)
ResolvedLabels(st, text) ==
    {LabelOf(text[i]) : i \in {j \in 1..Len(text) :
        text[j] \in Markers /\ ~IsNone(PublishedValue(st, LabelOf(text[j])))}}

(* the blocks of text that refer to a label *)
Referring(st) == {e \in DOMAIN st["TextContent"] : FindEmbeddings(st["TextContent"][e]) # <<>>}

(* C27: when LabelEmbeddingSystem.update runs on a store without marked
   entities (every tick that handles no event, so at the latest the tick after
   the one that read the edit), every block of text that refers to labels
   holds afterwards its original text with the current value of each label in
   place of the reference, and its linked labels hold these values; a block
   that was resolved with an older value is resolved again from its text
   content. *)
C27_StaleBlocksResolvedAgain ==
    [][(Embeds /\ DOMAIN store["MarkedForDeletion"] = {}) =>
          \A e \in Referring(store') :
              /\ has_component(store', e, "RenderedText")
              /\ store'["RenderedText"][e] = Resolve(store', store'["TextContent"][e])
              /\ \A l \in ResolvedLabels(store', store'["TextContent"][e]) :
                    /\ has_component(store', e, "LinkedLabels")
                    /\ l \in DOMAIN store'["LinkedLabels"][e]
                    /\ store'["LinkedLabels"][e][l] = The(PublishedValue(store', l))
      ]_vars

(* the document written in the tick that read the edit still shows the old
   value X, and the update of the next tick has resolved the block with Y *)
C27_Witness ==
    /\ pc = "render"
    /\ obs.ticks >= 1
    /\ DOMAIN store["MarkedForDeletion"] = {}
    /\ obs.last_write = Some(<<"Y", "\n\n", "see", "X", ":u:">>)
    /\ \E e \in Referring(store) :
          /\ store["RenderedText"][e] = <<"see", "Y", ":u:">>
          /\ store["LinkedLabels"][e] = ("a" :> <<"Y">>)

(* every label `text` refers to has, in every iteration order, the value that
   entity `e` has linked for it, or no value and no link *)
LinksAreCurrent(st, e, text) ==
    \A o \in Orders(DOMAIN st["OpeningLabel"]) :
        \A i \in 1..Len(text) :
            text[i] \in Markers =>
                LET l == LabelOf(text[i])
                    v == get_replacement_text_by_label(st, l, o)
                    linked == IF has_component(st, e, "LinkedLabels")
                              THEN DOMAIN st["LinkedLabels"][e] ELSE {}
                IN IF IsNone(v) THEN l \notin linked
                   ELSE l \in linked /\ st["LinkedLabels"][e][l] = The(v)

(* C28: LabelEmbeddingSystem.update on a block whose linked labels hold the
   current value of every label it refers to leaves the block as it was: the
   rendered text of a block of text, the rendered instruction of a directive
   and the linked labels are those of the previous update. *)
C28_ResolverIsIdempotent ==
    [][Embeds =>
          /\ \A e \in Referring(store) :
                (has_component(store, e, "RenderedText")
                 /\ LinksAreCurrent(store, e, store["TextContent"][e])) =>
                    /\ store'["RenderedText"][e] = store["RenderedText"][e]
                    /\ LinksAreCurrent(store', e, store["TextContent"][e])
                    /\ has_component(store, e, "LinkedLabels") =>
                           store'["LinkedLabels"][e] = store["LinkedLabels"][e]
          /\ \A e \in DOMAIN store["Instruction"] :
                LinksAreCurrent(store, e, store["Instruction"][e].instruction) =>
                    store'["Instruction"][e].render_instruction
                        = store["Instruction"][e].render_instruction
      ]_vars

(* some block declares `label` *)
Declared(st, label) == \E e \in DOMAIN st["OpeningLabel"] : <<label>> \in st["OpeningLabel"][e]

(* C29: after LabelEmbeddingSystem.update, the rendered text of a block of
   text, the rendered instruction of a directive and every rendered parameter
   value are the original with each reference to a label that has a value
   replaced by it and every other reference, one to a label that no block
   declares among them, left as it is; the update links no label that no
   block declares. *)
C29_UndeclaredLeftUnchanged ==
    [][Embeds =>
          /\ \A e \in Referring(store') :
                store'["RenderedText"][e] = Resolve(store', store'["TextContent"][e])
          /\ \A e \in DOMAIN store'["Instruction"] :
                store'["Instruction"][e].render_instruction
                    = Resolve(store', store'["Instruction"][e].instruction)
          /\ \A e \in DOMAIN store'["Parameters"] :
                LET p == store'["Parameters"][e]
                IN /\ Len(p.render_parameters) = Len(p.parameters)
                   /\ \A i \in 1..Len(p.parameters) :
                         /\ p.render_parameters[i].name = p.parameters[i].name
                         /\ p.render_parameters[i].values =
                                [j \in 1..Len(p.parameters[i].values) |->
                                    Resolve(store', p.parameters[i].values[j])]
          /\ \A e \in DOMAIN store'["LinkedLabels"] :
                \A l \in DOMAIN store'["LinkedLabels"][e] :
                    \/ Declared(store', l)
                    \/ has_component(store, e, "LinkedLabels") /\ l \in DOMAIN store["LinkedLabels"][e]
      ]_vars

(* a block of text, an instruction and a parameter value that refer to the
   declared a and to the undeclared u have been resolved *)
C29_Witness ==
    /\ pc \in {"command", "render"}
    /\ \E e \in DOMAIN store["TextContent"] :
          /\ store["TextContent"][e] = <<"see", ":a:", ":u:">>
          /\ store["RenderedText"][e] = <<"see", "X", ":u:">>
          /\ DOMAIN store["LinkedLabels"][e] = {"a"}
    /\ \E e \in DOMAIN store["Parameters"] :
          /\ store["Instruction"][e].render_instruction = <<"echo", "X", ":u:">>
          /\ store["Parameters"][e].render_parameters
                 = <<[name |-> <<"k">>, values |-> << <<"X", ":u:">> >>]>>
          /\ DOMAIN store["LinkedLabels"][e] = {"a"}

----------------------------------------------------------------------------
(* The run cache. *)

(* CommandSystem.update visits the run directive `e`, which has its instruction
   and its parameters resolved, and dispatches it to handle_run *)
RunsDirective(e) ==
    /\ pc = "command"
    /\ e \in todo
    /\ e \notin todo'
    /\ store["Command"][e].command = "run"
    /\ has_component(store, e, "Instruction")
    /\ has_component(store, e, "Parameters")
    /\ e \in obs'.dispatched

(* the key of the run cache for the directive `e` *)
RunKey(st, e) ==
    generate_run_key(st["Instruction"][e].render_instruction, st["Parameters"][e].parameters, e)

(* C30: a run directive whose child process exits with code 0 has the stdout
   stored in the run cache under its key; while the cache holds an entry under
   the key of a directive whose run_continuous is not true, handle_run starts
   no child process for it, whatever the stdout stored (the empty one
   included); a run that fails or raises stores nothing. *)
C30_RunOncePerKey ==
    [][\A e \in DOMAIN store["Command"] :
          RunsDirective(e) =>
             LET key == RunKey(store, e)
                 cached == key \in DOMAIN run_cache
                           /\ ~run_continuously(store["Parameters"][e].parameters)
             IN /\ cached => /\ obs'.started = obs.started
                             /\ run_cache' = run_cache
                             /\ store'["RenderedText"][e] = run_cache[key]
                /\ ~cached =>
                      \/ /\ key \in DOMAIN run_cache'
                         /\ store'["RenderedText"][e] = run_cache'[key]
                         /\ obs'.started = obs.started + 1
                      \/ /\ run_cache' = run_cache
                         /\ crashed' = ""
      ]_vars

(* C31: a run directive whose run_continuous parameter is true has its child
   process started in every handling (unless starting it raises), also when
   the run cache holds a result under its key; a run directive without the
   parameter, or with another value of it, is not executed when the cache
   holds a result under its key, and shows the cached text. *)
C31_RunContinuousIgnoresCache ==
    [][\A e \in DOMAIN store["Command"] :
          RunsDirective(e) =>
             LET key == RunKey(store, e)
             IN IF run_continuously(store["Parameters"][e].parameters)
                THEN \/ obs'.started = obs.started + 1
                     \/ /\ obs'.started = obs.started
                        /\ run_cache' = run_cache
                        /\ store'["RenderedText"][e] =
                              <<"An error occurred while executing the command:">>
                ELSE key \in DOMAIN run_cache =>
                        /\ obs'.started = obs.started
                        /\ store'["RenderedText"][e] = run_cache[key]
      ]_vars

----------------------------------------------------------------------------
(* The query service. *)

(* C32: an entry of the gen cache is flagged rate-limited only when call_llm
   answered with the rate-limit placeholder, never when the call of the query
   API failed with an error. *)
C32_RateLimitIsNotFailure ==
    \A key \in DOMAIN llm_cache :
       llm_cache[key].rate_limited => llm_cache[key].response = RENDER_TEXT_RATE_LIMITED

----------------------------------------------------------------------------
(* parse_lines on its own: the lines of one block are read one by one. *)

ParseLineKinds == {Ln("/", <<"a">>), Ln("?", <<"run", "x">>), Ln("", <<"A">>),
                   Ln("", <<"k", "=", "v">>), Ln("", <<"k", "=", "w">>),
                   Ln("", <<"j", "=", "v">>), Ln("\\", <<"a">>)}

ParseBlocks == UNION {[1..n -> ParseLineKinds] : n \in 1..MaxLines}

OthersUnchanged ==
    UNCHANGED <<store, component_manager, available_entities, living_entity_count, events,
                drained, source, source_readable, llm_cache, run_cache, last_call_time, now,
                rendered_doc, generated_file, pc, todo, crashed, obs>>

InitParse ==
    /\ InitCommon
    /\ obs = InitObs
    /\ events = <<>>
    /\ source = <<>>
    /\ store = EmptyStore
    /\ available_entities = InitialQueue
    /\ living_entity_count = 0
    /\ pc = "parse"
    /\ \E lines \in ParseBlocks : parsing = [NotParsing EXCEPT !.lines = lines]

(* one iteration of `for line in lines` *)
ParseLine ==
    /\ pc = "parse"
    /\ ~parsing.returned
    /\ parsing.lines # <<>>
    /\ ~parsing.p.error
    /\ parsing' = [parsing EXCEPT !.p = parse_line(@, Head(parsing.lines)),
                                  !.lines = Tail(@),
                                  !.seen = Append(@, Head(parsing.lines))]
    /\ OthersUnchanged

(* the loop is over and parse_lines returns, or handle_parameters_state raised *)
ParseReturn ==
    /\ pc = "parse"
    /\ ~parsing.returned
    /\ parsing.lines = <<>> \/ parsing.p.error
    /\ parsing' = [parsing EXCEPT !.returned = TRUE]
    /\ OthersUnchanged

NextParse == \/ ParseLine
             \/ ParseReturn

SpecParse == InitParse /\ [][NextParse]_vars

(* the transitions of the parser the claim lists, with the line that takes each *)
ParserTransition(from, line, to) ==
    \/ from = "start" /\ to = "start" /\ line.lead = "/"
    \/ from = "start" /\ to = "command" /\ line.lead = "?"
    \/ from = "start" /\ to = "text" /\ line.lead \notin {"/", "?"}
    \/ from = "command" /\ to = "command" /\ ~HasEq(line)
    \/ from = "command" /\ to = "parameters" /\ HasEq(line)
    \/ from = "parameters" /\ to = "parameters"
    \/ from = "text" /\ to = "text"

(* the first line read that is not an opening label starts with `?` *)
FirstContentIsCommand(seen) ==
    \E i \in 1..Len(seen) :
       /\ seen[i].lead = "?"
       /\ \A j \in 1..(i - 1) : seen[j].lead = "/"

(* C33: parse_lines takes only the transitions start to start (opening-label
   line), start to command (line starting with ?), start to text (another
   line), command to command, command to parameters (line containing =),
   parameters to parameters and text to text; once the block has left start
   no line adds an opening label or changes the kind of the block; closing
   labels are collected only in the states text and parameters; the block is
   a directive exactly when its first line that is not an opening label
   starts with ?. *)
C33_ParserTransitions ==
    [][parsing'.seen # parsing.seen =>
          LET p == parsing.p
              q == parsing'.p
              line == Head(parsing.lines)
          IN /\ ParserTransition(p.state, line, q.state)
             /\ p.state # "start" => /\ q.opening_labels = p.opening_labels
                                     /\ q.section_type = p.section_type
             /\ q.closing_labels # p.closing_labels => p.state \in {"text", "parameters"}
             /\ q.section_type = "command" <=> FirstContentIsCommand(parsing'.seen)
      ]_vars

C33_Witness ==
    /\ parsing.returned
    /\ parsing.seen = <<Ln("/", <<"a">>), Ln("?", <<"run", "x">>), Ln("", <<"k", "=", "v">>),
                        Ln("\\", <<"a">>)>>
    /\ parsing.p.state = "parameters"
    /\ parsing.p.section_type = "command"
    /\ parsing.p.opening_labels = <<<<"a">>>>
    /\ parsing.p.closing_labels = <<<<"a">>>>
    /\ ~parsing.p.error

(* the key=value lines of a directive block, in the order they were read *)
ParameterLines(seen) == SelectSeq(seen, LAMBDA l : l.lead = "" /\ HasEq(l))

(* the distinct elements of a sequence in the order of their first occurrence *)
RECURSIVE FirstOccurrences(_)
FirstOccurrences(s) ==
    IF s = <<>> THEN <<>>
    ELSE LET front == FirstOccurrences(SubSeq(s, 1, Len(s) - 1))
         IN IF \E i \in 1..Len(front) : front[i] = s[Len(s)]
            THEN front ELSE Append(front, s[Len(s)])

KeysOf(lines) == [i \in 1..Len(lines) |-> SplitKey(lines[i])]

ValuesOf(lines, key) ==
    LET of_key == SelectSeq(lines, LAMBDA l : SplitKey(l) = key)
    IN [i \in 1..Len(of_key) |-> SplitValue(of_key[i])]

(* C34: the parameter list of a directive holds one entry per distinct key of
   its key=value lines, in the order of first occurrence, and the value list
   of an entry holds the values of the key in the order of their lines. *)
C34_ParametersKeepOrder ==
    FirstContentIsCommand(parsing.seen) =>
       LET lines == ParameterLines(parsing.seen)
           parameters == parsing.p.parameters
       IN /\ [i \in 1..Len(parameters) |-> parameters[i].name]
                = FirstOccurrences(KeysOf(lines))
          /\ \A i \in 1..Len(parameters) :
                parameters[i].values = ValuesOf(lines, parameters[i].name)

C34_Witness ==
    /\ parsing.seen = <<Ln("?", <<"run", "x">>), Ln("", <<"k", "=", "v">>),
                        Ln("", <<"j", "=", "v">>), Ln("", <<"k", "=", "w">>)>>
    /\ parsing.p.parameters = <<[name |-> <<"k">>, values |-> <<<<"v">>, <<"w">>>>],
                                [name |-> <<"j">>, values |-> <<<<"v">>>>]>>

----------------------------------------------------------------------------
(* The tick. *)

(* the positions of the loop in the order ECSApp.update_systems visits the
   systems: the reconciler (get_events, then one handling per event), the
   label resolver, the directive executor, the renderer *)
TickOrder(from, to) ==
    \/ from = "get_events" /\ to = "clear"
    \/ from = "clear" /\ to \in {"handle", "embed"}
    \/ from = "handle" /\ to \in {"handle", "embed"}
    \/ from = "embed" /\ to \in {"command", "render"}
    \/ from = "command" /\ to \in {"command", "render"}
    \/ from = "render" /\ to = "get_events"

(* C35: a tick runs the reconciler, the label resolver, the directive executor
   and the renderer once each in this order (unless an exception ends the
   run); the mailbox is emptied only by the reconciler's get_events at the
   start of the tick; every pushed event is in the mailbox, drained and
   waiting for its handling, or handled, so that an event pushed during a
   tick is handled in a later one; the renderer runs when every event drained
   in the tick has been handled. *)
C35_TickOrderAndDrain ==
    [][/\ pc' # pc => TickOrder(pc, pc') \/ pc' = "stopped"
       /\ ~IsPrefix(events, events') => pc = "clear"
       /\ crashed' = "" =>
             \A id \in 0..obs'.pushed :
                \/ \E k \in 1..Len(events') : events'[k].id = id
                \/ \E k \in 1..Len(drained') : drained'[k].id = id
                \/ \E k \in 1..Len(obs'.handled) : obs'.handled[k] = id
       /\ pc' = "render" => /\ drained' = <<>>
                            /\ \A k \in 1..Len(obs'.returned) :
                                  \E h \in 1..Len(obs'.handled) :
                                     obs'.handled[h] = obs'.returned[k]
      ]_vars

----------------------------------------------------------------------------
(* Entity sets that are iterated without a copy. *)

EntitiesWith(st, T) == DOMAIN st[T]

(* C36: no system changes the entity set of a component type while it
   iterates over it without a copy: the label resolver leaves the sets of
   TextContentComponent, InstructionComponent, ParametersComponent and
   OpeningLabelComponent as they are; an iteration of the directive executor
   leaves the set of CommandComponent as it is; the reconciler, which reads the
   set of RawTextComponent before it creates or tombstones an entity, takes
   no entity out of it; the renderer iterates a copy of the tombstoned
   entities, destroys each of them and takes nothing else out of any set. *)
C36_IteratedSetsUnchanged ==
    [][/\ pc = "embed" /\ pc' # pc =>
             \A T \in {"TextContent", "Instruction", "Parameters", "OpeningLabel"} :
                EntitiesWith(store', T) = EntitiesWith(store, T)
       /\ pc = "command" /\ todo' # todo =>
             EntitiesWith(store', "Command") = EntitiesWith(store, "Command")
       /\ pc = "handle" /\ drained' # drained =>
             EntitiesWith(store, "RawText") \subseteq EntitiesWith(store', "RawText")
       /\ pc = "render" /\ pc' # pc =>
             \A T \in ComponentTypes :
                EntitiesWith(store', T)
                   = EntitiesWith(store, T) \ EntitiesWith(store, "MarkedForDeletion")
      ]_vars

(* the directive executor has written the rendered text of a directive it
   reached while a tombstoned entity waits for the renderer *)
C36_Witness ==
    /\ pc = "render"
    /\ EntitiesWith(store, "MarkedForDeletion") # {}
    /\ \E e \in obs.reached : e \in EntitiesWith(store, "Command")
                                     \cap EntitiesWith(store, "RenderedText")

----------------------------------------------------------------------------
(* The rate limiter. *)

(* the step is a handling by handle_gen that called call_llm *)
CallsLlm == CountSum(obs'.llm_calls) = CountSum(obs.llm_calls) + 1

(* C37: call_llm calls the query API only when more than rate_limit_seconds
   have passed since the last successful call of the API; otherwise it
   answers with the rate-limit placeholder and does not call the API; two
   successful calls of the API are more than rate_limit_seconds apart. *)
C37_RateLimiterSpacesCalls ==
    [][CallsLlm =>
          /\ obs'.api_calls # obs.api_calls => now' - last_call_time > rate_limit_seconds
          /\ now' - last_call_time <= rate_limit_seconds =>
                /\ obs'.api_calls = obs.api_calls
                /\ last_call_time' = last_call_time
                /\ The(obs'.last_call).text = RENDER_TEXT_RATE_LIMITED
                /\ The(obs'.last_call).rate_limited
          /\ last_call_time' # last_call_time =>
                /\ last_call_time' = now'
                /\ last_call_time' - last_call_time > rate_limit_seconds
                /\ obs'.api_calls = obs.api_calls + 1
      ]_vars

(* two successful calls of the API more than rate_limit_seconds apart, and a
   call between them that the rate limiter answered without calling the API *)
C37_Witness ==
    /\ obs.api_calls = 2
    /\ CountSum(obs.llm_calls) = 3
    /\ last_call_time >= StartTime + rate_limit_seconds + 1
    /\ Cardinality({k \in DOMAIN llm_cache : ~llm_cache[k].rate_limited}) = 2

----------------------------------------------------------------------------
(* The pool of entity ids across ticks. *)

(* the ids that are not in the queue of free ids: those handed out (the ids
   below fresh) and not put back *)
TakenIds(q) == (0..(q.fresh - 1)) \ SeqToSet(q.recycled)

FreeLength(q) == (MAX_ENTITIES - q.fresh) + Len(q.recycled)

(* C38: across the ticks (entities created by the reconciler, tombstoned
   entities destroyed by the renderer) the id create_entity would return next
   is not the id of a live entity, no id occurs twice in the queue of free
   ids, and living_entity_count is MAX_ENTITIES minus the length of the queue,
   which is the number of entities created and not destroyed since (the
   entities that carry a component). *)
C38_PoolIsConsistent ==
    /\ \A i, j \in 1..Len(available_entities.recycled) :
          i # j => available_entities.recycled[i] # available_entities.recycled[j]
    /\ \A i \in 1..Len(available_entities.recycled) :
          available_entities.recycled[i] < available_entities.fresh
    /\ living_entity_count = MAX_ENTITIES - FreeLength(available_entities)
    /\ valid_entities(store) = TakenIds(available_entities)
    /\ living_entity_count = Cardinality(valid_entities(store))
    /\ ~QueueEmpty(available_entities) =>
          QueueGet(available_entities) \notin valid_entities(store)

(* entities were destroyed at the end of two ticks and an entity created
   after the first of them is live *)
C38_Witness ==
    /\ Len(available_entities.recycled) >= 2
    /\ obs.ticks >= 1
    /\ \E e \in valid_entities(store) :
          \A i \in 1..Len(available_entities.recycled) : e > available_entities.recycled[i]

----------------------------------------------------------------------------
(* Ticks on a source that is not modified again: the event of start-up is
   handled in the first tick and no other event arrives. *)

MaxQuietTicks == 4     \* ticks explored on a source that is not modified again

SelfRef == <<Ln("/", <<"a">>), Ln("", <<"x", ":a:">>)>>
DeclBviaA == <<Ln("/", <<"b">>), Ln("", <<"b", ":a:">>)>>
UseB == <<Ln("", <<"see", ":b:">>)>>

MutualA == <<Ln("/", <<"a">>), Ln("", <<"p", ":b:">>)>>
MutualB == <<Ln("/", <<"b">>), Ln("", <<"q", ":a:">>)>>

(* documents whose references form no cycle: a reference after and before its
   declaration, a reference to no declaration, chains of two references *)
AcyclicDocs == {Doc(<<DeclX, UseA>>), Doc(<<UseA, DeclX>>), Doc(<<UseA>>),
                Doc(<<UseB, DeclBviaA, DeclX>>), Doc(<<DeclX, DeclBviaA, UseB>>),
                Doc(<<DeclBviaA, UseB, DeclX>>)}

(* a block that refers to its own label, two blocks that refer to each other *)
CyclicDocs == {Doc(<<SelfRef>>), Doc(<<MutualA, MutualB>>)}

QuietDocs == AcyclicDocs \cup CyclicDocs

InitQuiet == InitWith(QuietDocs)

(* EventBus.get_events, first statement, in one of the MaxQuietTicks ticks *)
GetEventsCopyQuiet ==
    /\ Running
    /\ pc = "get_events"
    /\ obs.ticks < MaxQuietTicks
    /\ drained' = events_copy(events)
    /\ pc' = "clear"
    /\ UNCHANGED <<parsing, component_manager, store, available_entities, living_entity_count,
                   events, source, source_readable, llm_cache, run_cache, last_call_time, now,
                   rendered_doc, generated_file, todo, crashed, obs>>

(* the documents of QuietDocs hold no directive block *)
NextQuiet == \/ GetEventsCopyQuiet
             \/ GetEventsClear
             \/ HandleEvent
             \/ LabelEmbeddingUpdate
             \/ RenderUpdate

SpecQuiet == InitQuiet /\ [][NextQuiet]_vars

(* a reference is resolved at the latest one tick after the block it names,
   so a document without a cycle of references is resolved after as many
   ticks as it has blocks *)
SettlingTicks(content) == Len(NonConfigSections(content))

(* C39: on a source that is not modified again the ticks reach a fixed point:
   once the document has had the ticks it needs to settle, a tick changes no
   rendered text and no linked label, assembles the same document and does
   not write the output file, whatever the references between the blocks. *)
C39_QuietTicksReachFixedPoint ==
    [][(obs.ticks >= SettlingTicks(source) /\ pc \in {"embed", "render"}) =>
          /\ store'["RenderedText"] = store["RenderedText"]
          /\ store'["LinkedLabels"] = store["LinkedLabels"]
          /\ obs'.writes = obs.writes
          /\ generated_file' = generated_file
      ]_vars

----------------------------------------------------------------------------
(* The label resolver and tombstoned blocks. *)

(* the value the block of entity `e` publishes for its labels *)
ValueOf(st, e) ==
    IF has_component(st, e, "RenderedText") THEN Some(st["RenderedText"][e])
    ELSE IF has_component(st, e, "TextContent") THEN Some(st["TextContent"][e])
    ELSE None

(* the values that only tombstoned blocks publish for `label`: the blocks
   that are absent from the latest parse *)
TombstonedValues(st, label) ==
    LET declaring == {e \in DOMAIN st["OpeningLabel"] :
                         <<label>> \in st["OpeningLabel"][e] /\ ~IsNone(ValueOf(st, e))}
        marked == declaring \cap DOMAIN st["MarkedForDeletion"]
    IN {The(ValueOf(st, e)) : e \in marked}
          \ {The(ValueOf(st, e)) : e \in declaring \ marked}

(* `text` with the references to `label` replaced by `value` and every other
   reference resolved as Resolve does *)
ResolveWith(st, text, label, value) ==
    Flatten([i \in 1..Len(text) |->
                IF text[i] \in Markers /\ LabelOf(text[i]) = label THEN value
                ELSE Resolve(st, <<text[i]>>)])

(* C40: after LabelEmbeddingSystem.update, in the tick in which a labelled
   block was edited or removed, no block of the latest parse that refers to
   the label has a rendered text, and no directive a rendered instruction,
   that holds the value of the tombstoned block in place of the reference. *)
C40_TombstonedValueNotEmbedded ==
    [][Embeds =>
          /\ \A e \in Referring(store') \ DOMAIN store'["MarkedForDeletion"] :
                \A l \in {LabelOf(t) : t \in SeqToSet(FindEmbeddings(store'["TextContent"][e]))} :
                   \A v \in TombstonedValues(store', l) :
                      has_component(store', e, "RenderedText") =>
                         store'["RenderedText"][e]
                            # ResolveWith(store', store'["TextContent"][e], l, v)
          /\ \A e \in DOMAIN store'["Instruction"] \ DOMAIN store'["MarkedForDeletion"] :
                \A l \in {LabelOf(t) :
                            t \in SeqToSet(FindEmbeddings(store'["Instruction"][e].instruction))} :
                   \A v \in TombstonedValues(store', l) :
                      store'["Instruction"][e].render_instruction
                         # ResolveWith(store', store'["Instruction"][e].instruction, l, v)
      ]_vars

====
